---- MODULE Spec2Model ----
(***************************************************************************)
(* Verification model of v-chat: the SSE chat pipeline                     *)
(* (chat.controller.ts, completion.service.ts, chat.service.ts), the       *)
(* client-side stream readers (useChatStreaming, ChatView), the central    *)
(* error handler, and the document / embedding pipeline                    *)
(* (documents.routes.ts, documents.service.ts, retrieval.service.ts).      *)
(*                                                                         *)
(* Text is modelled as a sequence of one-character strings.  JSON values   *)
(* are records [t, s, kids]: t = "s" is a string with characters s,        *)
(* t = "a" an array with elements kids, t = "o" an object whose kids       *)
(* alternate key (a string value) and value, t = "n" a number with its     *)
(* decimal text in s.                                                      *)
(***************************************************************************)
EXTENDS Integers, Sequences, FiniteSets, TLC

\* ------------------------------------------------------------------------
\* Bounds
\* ------------------------------------------------------------------------

\* Largest number of deltas the completion API produces for one stream.
MaxDeltas == 2

\* Largest size of a short piece of the response body returned by one read.
MaxPiece == 3

\* ------------------------------------------------------------------------
\* Characters and JSON
\* ------------------------------------------------------------------------

NL == "\n"
QT == "\""
BSL == "\\"

JStr(chars) == [t |-> "s", s |-> chars, kids |-> <<>>]
JArr(elems) == [t |-> "a", s |-> <<>>, kids |-> elems]
JObj(pairs) == [t |-> "o", s |-> <<>>, kids |-> pairs]
\* A number, kept as its decimal text.
JNum(digits) == [t |-> "n", s |-> digits, kids |-> <<>>]
NumChars == {"0","1","2","3","4","5","6","7","8","9","."}

\* The key texts used by the program.
K_type == <<"t","y","p","e">>
K_data == <<"d","a","t","a">>
K_id == <<"i","d">>
K_content == <<"c","o","n","t","e","n","t">>
K_messageId == <<"m","e","s","s","a","g","e","I","d">>
T_content == <<"c","o","n","t","e","n","t">>
T_sources == <<"s","o","u","r","c","e","s">>
T_done == <<"d","o","n","e">>

\* JSON.stringify of one character inside a string literal.
EscapeChar(c) ==
    IF c = NL THEN <<BSL, "n">>
    ELSE IF c = QT THEN <<BSL, QT>>
    ELSE IF c = BSL THEN <<BSL, BSL>>
    ELSE <<c>>

RECURSIVE EscapeString(_)
EscapeString(chars) ==
    IF chars = <<>> THEN <<>>
    ELSE EscapeChar(Head(chars)) \o EscapeString(Tail(chars))

\* JSON.stringify(value): no whitespace, keys in insertion order.
RECURSIVE JSONstringify(_)
RECURSIVE StringifyElems(_)
RECURSIVE StringifyPairs(_)
StringifyElems(elems) ==
    IF elems = <<>> THEN <<>>
    ELSE JSONstringify(Head(elems))
         \o (IF Len(elems) > 1 THEN <<",">> ELSE <<>>)
         \o StringifyElems(Tail(elems))
StringifyPairs(pairs) ==
    IF pairs = <<>> THEN <<>>
    ELSE JSONstringify(pairs[1]) \o <<":">> \o JSONstringify(pairs[2])
         \o (IF Len(pairs) > 2 THEN <<",">> ELSE <<>>)
         \o StringifyPairs(Tail(Tail(pairs)))
JSONstringify(v) ==
    IF v.t = "s" THEN <<QT>> \o EscapeString(v.s) \o <<QT>>
    ELSE IF v.t = "n" THEN v.s
    ELSE IF v.t = "a" THEN <<"[">> \o StringifyElems(v.kids) \o <<"]">>
    ELSE <<"{">> \o StringifyPairs(v.kids) \o <<"}">>

\* JSON.parse(text).  A parse result is [ok, v, n]: n is the index of the
\* first character after the value.  ok = FALSE is a SyntaxError.
ParseFail == [ok |-> FALSE, v |-> JStr(<<>>), n |-> 0]

RECURSIVE ParseStringBody(_, _, _)
ParseStringBody(text, i, acc) ==
    IF i > Len(text) THEN ParseFail
    ELSE IF text[i] = QT THEN [ok |-> TRUE, v |-> JStr(acc), n |-> i + 1]
    ELSE IF text[i] = NL THEN ParseFail
    ELSE IF text[i] = BSL THEN
        IF i + 1 > Len(text) THEN ParseFail
        ELSE IF text[i + 1] = "n" THEN ParseStringBody(text, i + 2, Append(acc, NL))
        ELSE IF text[i + 1] = QT THEN ParseStringBody(text, i + 2, Append(acc, QT))
        ELSE IF text[i + 1] = BSL THEN ParseStringBody(text, i + 2, Append(acc, BSL))
        ELSE ParseFail
    ELSE ParseStringBody(text, i + 1, Append(acc, text[i]))

RECURSIVE ParseNumber(_, _, _)
ParseNumber(text, i, acc) ==
    IF i <= Len(text) /\ text[i] \in NumChars
    THEN ParseNumber(text, i + 1, Append(acc, text[i]))
    ELSE [ok |-> TRUE, v |-> JNum(acc), n |-> i]

RECURSIVE ParseValue(_, _)
RECURSIVE ParseElems(_, _, _)
RECURSIVE ParsePairs(_, _, _)
ParseElems(text, i, acc) ==
    LET r == ParseValue(text, i) IN
    IF ~r.ok THEN ParseFail
    ELSE IF r.n > Len(text) THEN ParseFail
    ELSE IF text[r.n] = "]" THEN [ok |-> TRUE, v |-> JArr(Append(acc, r.v)), n |-> r.n + 1]
    ELSE IF text[r.n] = "," THEN ParseElems(text, r.n + 1, Append(acc, r.v))
    ELSE ParseFail
ParsePairs(text, i, acc) ==
    LET k == ParseValue(text, i) IN
    IF ~k.ok \/ k.v.t # "s" THEN ParseFail
    ELSE IF k.n > Len(text) \/ text[k.n] # ":" THEN ParseFail
    ELSE LET r == ParseValue(text, k.n + 1) IN
         IF ~r.ok THEN ParseFail
         ELSE IF r.n > Len(text) THEN ParseFail
         ELSE IF text[r.n] = "}" THEN
             [ok |-> TRUE, v |-> JObj(acc \o <<k.v, r.v>>), n |-> r.n + 1]
         ELSE IF text[r.n] = "," THEN ParsePairs(text, r.n + 1, acc \o <<k.v, r.v>>)
         ELSE ParseFail
ParseValue(text, i) ==
    IF i > Len(text) THEN ParseFail
    ELSE IF text[i] = QT THEN ParseStringBody(text, i + 1, <<>>)
    ELSE IF text[i] = "[" THEN
        IF i + 1 <= Len(text) /\ text[i + 1] = "]"
        THEN [ok |-> TRUE, v |-> JArr(<<>>), n |-> i + 2]
        ELSE ParseElems(text, i + 1, <<>>)
    ELSE IF text[i] = "{" THEN
        IF i + 1 <= Len(text) /\ text[i + 1] = "}"
        THEN [ok |-> TRUE, v |-> JObj(<<>>), n |-> i + 2]
        ELSE ParsePairs(text, i + 1, <<>>)
    ELSE IF text[i] \in NumChars THEN ParseNumber(text, i, <<>>)
    ELSE ParseFail

JSONparse(text) ==
    LET r == ParseValue(text, 1) IN
    IF r.ok /\ r.n = Len(text) + 1 THEN r ELSE ParseFail

\* obj[key] for a parsed value; Undefined when absent or obj is no object.
Undefined == [t |-> "u", s |-> <<>>, kids |-> <<>>]
RECURSIVE Lookup(_, _)
Lookup(pairs, key) ==
    IF Len(pairs) < 2 THEN Undefined
    ELSE IF pairs[1].s = key THEN pairs[2]
    ELSE Lookup(Tail(Tail(pairs)), key)
Get(obj, key) == IF obj.t = "o" THEN Lookup(obj.kids, key) ELSE Undefined

\* ------------------------------------------------------------------------
\* SSE framing
\* ------------------------------------------------------------------------

DataPrefix == <<"d","a","t","a",":"," ">>

\* `data: ${JSON.stringify(chunk)}\n\n`
Frame(chunk) == DataPrefix \o JSONstringify(chunk) \o <<NL, NL>>

\* buffer.split("\n\n"): the pieces between successive blank lines, found
\* left to right without overlap; always at least one piece.
RECURSIVE SplitFrom(_, _)
SplitFrom(text, from) ==
    LET seps == {i \in from..(Len(text) - 1) : text[i] = NL /\ text[i + 1] = NL} IN
    IF seps = {} THEN <<SubSeq(text, from, Len(text))>>
    ELSE LET first == CHOOSE i \in seps : \A j \in seps : i <= j IN
         <<SubSeq(text, from, first - 1)>> \o SplitFrom(text, first + 2)
Split(text) == SplitFrom(text, 1)

\* line.startsWith("data: ")
StartsWithData(line) ==
    Len(line) >= 6 /\ SubSeq(line, 1, 6) = DataPrefix


\* ------------------------------------------------------------------------
\* Identifiers, users, embeddings
\* ------------------------------------------------------------------------

DigitChar(n) == <<"0","1","2","3","4","5","6","7","8","9">>[n + 1]
\* A generated id: a prefix letter and a serial number.
IdOf(prefix, n) == <<prefix, DigitChar(n)>>

Users == {"u1", "u2"}
\* The server-side requests in flight.
Reqs == {1, 2}
\* Conversations that may be created.
ConvSerials == {1, 2}

\* Embedding vectors returned by the embedding API, and their cosine
\* similarity (1 - cosine distance) in hundredths.
Embeddings == {"e1", "e2"}
Similarity(a, b) == IF a = b THEN 100 ELSE 50
\* A similarity as the JSON number text.
ScoreText(sim) == IF sim = 100 THEN <<"1">> ELSE <<"0", ".", DigitChar(sim \div 10)>>

\* Deltas the completion API can produce (an empty delta carries no text).
DeltaValues == {<<>>, <<"a">>, <<NL, NL>>}
\* Answers of the non-streaming completion API.
Answers == {<<>>, <<"a">>}
\* Message texts a user sends (validated non-empty).
UserTexts == {<<"q">>}

K_score == <<"s","c","o","r","e">>
K_documentId == <<"d","o","c","u","m","e","n","t","I","d">>
K_metadata == <<"m","e","t","a","d","a","t","a">>
K_chunkIndex == <<"c","h","u","n","k","I","n","d","e","x">>

\* chat.types.ts DEFAULT_SETTINGS; threshold in hundredths, documentIds
\* undefined is the empty list.
DEFAULT_SETTINGS == [topK |-> 5, threshold |-> 70, documentIds |-> <<>>]

VARIABLES
    conversations,  \* rows of Conversation: [id, userId, settings]
    messages,       \* rows of Message in creation order
    nextConvId,
    nextMsgId,
    deletedConvs,   \* history: ids whose deleteConversation by the owner completed
    documents,      \* rows of Document: [id, content]
    chunks,         \* rows of DocumentChunk
    nextDocId,
    nextChunkId,
    uploads,        \* per upload: the route handler's locals and position
    jobs,           \* per upload: its background processDocumentEmbeddings
    deletedDocs,    \* history: ids whose deleteDocument completed
    nodeEnv,        \* process.env.NODE_ENV
    reqs,           \* per request: the handler's locals and position
    res             \* per request: the HTTP response

storeVars == <<conversations, messages, nextConvId, nextMsgId, deletedConvs>>
docVars == <<documents, chunks, nextDocId, nextChunkId, uploads, jobs, deletedDocs>>

VARIABLES
    variant,             \* "hook" (useChatStreaming) or "view" (ChatView)
    cPc,                 \* position in the send function
    isStreaming,
    streamingContent,
    streamingSources,
    pendingUserMessage,  \* [null, text]
    error,               \* [null, text]
    buffer,
    rdPos,               \* characters of the response body delivered so far
    handled,             \* history: the events the read loop acted on
    cachedMessages,      \* ChatView's query data: currentConversation.messages
    connClosed           \* the client has closed the connection

clientVars == <<variant, cPc, isStreaming, streamingContent, streamingSources,
                pendingUserMessage, error, buffer, rdPos, handled,
                cachedMessages, connClosed>>

vars == <<storeVars, docVars, nodeEnv, reqs, res, clientVars>>

\* ------------------------------------------------------------------------
\* Errors and the central error handler
\* ------------------------------------------------------------------------

\* An error: zod marks a ZodError (errors holds its issues' messages),
\* statusCode 0 and code "" stand for undefined.
NoError ==
    [zod |-> FALSE, errors |-> <<>>, statusCode |-> 0, code |-> "", message |-> ""]
NotFoundError ==
    [zod |-> FALSE, errors |-> <<>>, statusCode |-> 404,
     code |-> "CONVERSATION_NOT_FOUND", message |-> "Conversation not found"]
\* An error thrown by the OpenAI client (it has status, not statusCode).
OpenAIError ==
    [zod |-> FALSE, errors |-> <<>>, statusCode |-> 0, code |-> "",
     message |-> "Connection error."]
\* Errors thrown by the ORM for a violated foreign key / a missing row.
PrismaForeignKeyError ==
    [zod |-> FALSE, errors |-> <<>>, statusCode |-> 0, code |-> "P2003",
     message |-> "Foreign key constraint failed"]
PrismaNotFoundError ==
    [zod |-> FALSE, errors |-> <<>>, statusCode |-> 0, code |-> "P2025",
     message |-> "Record to update not found."]

\* err.errors.map((e) => e.message).join(", ")
RECURSIVE JoinMessages(_)
JoinMessages(errors) ==
    IF errors = <<>> THEN ""
    ELSE IF Len(errors) = 1 THEN errors[1]
    ELSE errors[1] \o ", " \o JoinMessages(Tail(errors))

\* errorHandler without the NODE_ENV test: the error's own message always.
errorHandlerNoProdCheck(err, env) ==
    IF err.zod THEN
        [status |-> 400, message |-> "Validation error: " \o JoinMessages(err.errors),
         code |-> "VALIDATION_ERROR"]
    ELSE IF err.statusCode # 0 THEN
        [status |-> err.statusCode, message |-> err.message, code |-> err.code]
    ELSE
        [status |-> 500, message |-> err.message, code |-> "INTERNAL_ERROR"]

\* errorHandler: the (message, status, code) it hands to sendError.
errorHandler(err, env) ==
    IF err.zod THEN
        [status |-> 400, message |-> "Validation error: " \o JoinMessages(err.errors),
         code |-> "VALIDATION_ERROR"]
    ELSE IF err.statusCode # 0 THEN
        [status |-> err.statusCode, message |-> err.message, code |-> err.code]
    ELSE
        [status |-> 500,
         message |-> IF env = "production" THEN "Internal server error" ELSE err.message,
         code |-> "INTERNAL_ERROR"]

\* ------------------------------------------------------------------------
\* The ORM layer
\* ------------------------------------------------------------------------

ConversationExists(convId) == \E cv \in conversations : cv.id = convId

\* Message.conversationId references Conversation.id (a message belongs to
\* exactly one conversation): creating a message needs the conversation.
MessageForeignKeyHolds(convId) == ConversationExists(convId)

\* Deleting conversation rows cascades to their messages.
CascadeMessages(msgs, deletedIds) ==
    LET Keep(m) == m.conversationId \notin deletedIds IN SelectSeq(msgs, Keep)

\* Deleting a document row cascades to its chunks.
CascadeChunks(cks, docId) == {k \in cks : k.documentId # docId}

\* chatService.getConversation: findFirst({id, userId}, include messages asc)
getConversation(convId, userId) ==
    {cv \in conversations : cv.id = convId /\ cv.userId = userId}

MessagesOf(convId) ==
    LET In(m) == m.conversationId = convId IN SelectSeq(messages, In)

\* conversation.messages.map(msg => ({role, content}))
RECURSIVE HistoryOf(_)
HistoryOf(msgs) ==
    IF msgs = <<>> THEN <<>>
    ELSE <<[role |-> Head(msgs).role, content |-> Head(msgs).content]>>
         \o HistoryOf(Tail(msgs))

\* ------------------------------------------------------------------------
\* retrievalService.search
\* ------------------------------------------------------------------------

Min(a, b) == IF a < b THEN a ELSE b

\* The query without the documentId condition.
CandidatesIgnoringFilter(documentIds) ==
    {k \in chunks : k.embedding # "NULL"}

\* WHERE embedding IS NOT NULL [AND "documentId" = ANY(documentIds)]
Candidates(documentIds) ==
    {k \in chunks :
        /\ k.embedding # "NULL"
        /\ \/ Len(documentIds) = 0
           \/ \E i \in 1..Len(documentIds) : documentIds[i] = k.documentId}

\* ORDER BY embedding <=> query LIMIT topK: every row order the database may
\* return (rows at equal distance come in any order).
RankedLists(q, topK, documentIds) ==
    LET C == Candidates(documentIds)
        n == Min(topK, Cardinality(C))
    IN {s \in [1..n -> C] :
          /\ \A i, j \in 1..n : i < j =>
                /\ s[i] # s[j]
                /\ Similarity(s[i].embedding, q) >= Similarity(s[j].embedding, q)
          /\ \A k \in C : (\A i \in 1..n : s[i] # k) =>
                \A i \in 1..n : Similarity(s[i].embedding, q) >= Similarity(k.embedding, q)}

\* One SearchResult: {id, content, score, documentId, metadata}
ToSearchResult(k, q) ==
    JObj(<<JStr(K_id), JStr(k.id),
           JStr(K_content), JStr(k.content),
           JStr(K_score), JNum(ScoreText(Similarity(k.embedding, q))),
           JStr(K_documentId), JStr(k.documentId),
           JStr(K_metadata), JObj(<<JStr(K_chunkIndex), JNum(<<DigitChar(k.chunkIndex)>>)>>)>>)

\* search without the threshold filter.
FilterAndMapNoFilter(ranked, q, threshold) ==
    JArr([i \in 1..Len(ranked) |-> ToSearchResult(ranked[i], q)])

\* results.filter(r => r.similarity >= threshold).map(...)
FilterAndMap(ranked, q, threshold) ==
    LET Pass(k) == Similarity(k.embedding, q) >= threshold
        kept == SelectSeq(ranked, Pass)
    IN JArr([i \in 1..Len(kept) |-> ToSearchResult(kept[i], q)])

\* ------------------------------------------------------------------------
\* The messages array of completionService.complete and .stream
\* ------------------------------------------------------------------------

\* The system prompt is a fixed text; it is kept as one unit.
SYSTEM_PROMPT == <<"You are a helpful knowledge assistant. [...]">>
ContextHeader == <<NL, NL, "Relevant context from company documents:", NL>>

\* `[${i + 1}] ${s.content}` for the source at 0-based index i
SourceLine(s, i) == <<"[", DigitChar(i + 1), "]", " ">> \o Get(s, K_content).s

\* Array.prototype.join
RECURSIVE Join(_, _)
Join(parts, sep) ==
    IF parts = <<>> THEN <<>>
    ELSE IF Len(parts) = 1 THEN parts[1]
    ELSE parts[1] \o sep \o Join(Tail(parts), sep)

\* The context with the sources numbered from 0.
ContextPromptFromZero(useRAG, sources) ==
    IF useRAG /\ Len(sources.kids) > 0
    THEN ContextHeader \o
         Join([i \in 1..Len(sources.kids) |->
                    <<"[", DigitChar(i - 1), "]", " ">> \o Get(sources.kids[i], K_content).s],
              <<NL, NL>>)
    ELSE <<>>

\* let contextPrompt = ""; if (useRAG) { ... if (sources.length > 0)
\* contextPrompt = header + sources.map(...).join("\n\n") }
ContextPrompt(useRAG, sources) ==
    IF useRAG /\ Len(sources.kids) > 0
    THEN ContextHeader \o
         Join([i \in 1..Len(sources.kids) |-> SourceLine(sources.kids[i], i - 1)],
              <<NL, NL>>)
    ELSE <<>>

\* const messages = [{role: "system", ...}, ...conversationHistory.map(...),
\*                   {role: "user", content: userMessage}]
BuildMessages(userMessage, conversationHistory, contextPrompt) ==
    <<[role |-> "system", content |-> SYSTEM_PROMPT \o contextPrompt]>>
    \o [i \in 1..Len(conversationHistory) |->
            [role |-> conversationHistory[i].role,
             content |-> conversationHistory[i].content]]
    \o <<[role |-> "user", content |-> userMessage]>>

\* ------------------------------------------------------------------------
\* Server requests (chat.controller.ts, completion.service.ts)
\* ------------------------------------------------------------------------

\* What auth.api.getSession gives for the request's headers: null, a
\* session without user, a session of a user, or a thrown error.
SessionNull == [state |-> "null", user |-> ""]
SessionNoUser == [state |-> "nouser", user |-> ""]
SessionThrows == [state |-> "throws", user |-> ""]
SessionOf(u) == [state |-> "valid", user |-> u]

\* A value of a JSON body field before validation.  Numbers are kept in
\* hundredths (topK 5 is 500, threshold 0.7 is 70).
RawUndefined == [t |-> "undefined", n |-> 0, s |-> <<>>]
RawNull == [t |-> "null", n |-> 0, s |-> <<>>]
RawBool(b) == [t |-> "boolean", n |-> IF b THEN 1 ELSE 0, s |-> <<>>]
RawNum(h) == [t |-> "number", n |-> h, s |-> <<>>]
RawStr(chars) == [t |-> "string", n |-> 0, s |-> chars]
\* documentIds before validation: undefined, an array of strings, or another
\* value.
RawNoIds == [t |-> "undefined", ids |-> <<>>]
RawIds(ids) == [t |-> "array", ids |-> ids]
RawNotArray == [t |-> "string", ids |-> <<>>]

\* req.body as it arrives: settings is "undefined", "null" or "object" (for
\* PATCH .../settings and POST /quick the body itself holds the fields).
NoBody ==
    [content |-> <<>>, settings |-> "undefined", topK |-> RawUndefined,
     threshold |-> RawUndefined, documentIds |-> RawNoIds]

NoReq ==
    [kind |-> "none", pc |-> "idle", userId |-> "", convId |-> <<>>,
     content |-> <<>>, history |-> <<>>, settings |-> DEFAULT_SETTINGS,
     queryEmbedding |-> "NULL", sources |-> JArr(<<>>), fullContent |-> <<>>,
     produced |-> <<>>, embedCalls |-> 0, completionCalls |-> 0,
     error |-> NoError, asstMsgId |-> <<>>,
     useRAG |-> TRUE, prompt |-> <<>>, seen |-> {},
     session |-> SessionNull, body |-> NoBody]

\* sendErrorCalls is history: the arguments of the sendError calls.
NoRes ==
    [headersSent |-> FALSE, status |-> 0, code |-> "", message |-> "",
     wire |-> <<>>, written |-> <<>>, state |-> "open", sendErrorCalls |-> <<>>]

\* res.write(`data: ${JSON.stringify(chunk)}\n\n`): the first write sends the
\* headers with status 200.
Write(rs, chunk) ==
    [rs EXCEPT !.headersSent = TRUE,
               !.status = IF rs.headersSent THEN rs.status ELSE 200,
               !.wire = rs.wire \o Frame(chunk),
               !.written = Append(rs.written, chunk)]

\* sendSuccess(res, data, status)
sendSuccess(rs, status) ==
    [rs EXCEPT !.headersSent = TRUE, !.status = status, !.state = "ended"]

\* catch (error) { next(error) }: errorHandler answers through sendError.
\* When the headers are already sent, res.status().json() throws and the
\* framework's final handler destroys the socket.
sendErrorResponse(rs, err) ==
    LET h == errorHandler(err, nodeEnv) IN
    IF rs.headersSent
    THEN [rs EXCEPT !.state = "destroyed", !.sendErrorCalls = Append(@, h)]
    ELSE [rs EXCEPT !.headersSent = TRUE, !.status = h.status, !.code = h.code,
                    !.message = h.message, !.state = "ended",
                    !.sendErrorCalls = Append(@, h)]

Throw(r, err) ==
    /\ reqs' = [reqs EXCEPT ![r].pc = "failed", ![r].error = err]
    /\ res' = [res EXCEPT ![r] = sendErrorResponse(res[r], err)]

\* A request arrives (authenticated as userId, body and params validated).
StartRequest(r, kind, userId, convId, content) ==
    /\ reqs[r].kind = "none"
    /\ reqs' = [reqs EXCEPT ![r] =
            [NoReq EXCEPT !.kind = kind, !.userId = userId, !.convId = convId,
                          !.content = content,
                          !.pc = IF kind = "quick" THEN "embed" ELSE "getConversation"]]
    /\ UNCHANGED <<res, storeVars, docVars, nodeEnv, clientVars>>

\* POST /api/chat/quick arrives with a validated body: topK, threshold and
\* documentIds are taken from it (RAG_DEFAULTS where it has none).
StartQuickChat(r, content, settings) ==
    /\ reqs[r].kind = "none"
    /\ reqs' = [reqs EXCEPT ![r] =
            [NoReq EXCEPT !.kind = "quick", !.content = content,
                          !.settings = settings, !.pc = "embed"]]
    /\ UNCHANGED <<res, storeVars, docVars, nodeEnv, clientVars>>

\* completionService.complete (kind "quick") or .stream (kind "stream") is
\* called with a user message and options {conversationHistory, useRAG, topK,
\* threshold, documentIds}; without RAG the search is skipped.
CallCompletion(r, kind, content, conversationHistory, useRAG, settings) ==
    /\ reqs[r].kind = "none"
    /\ reqs' = [reqs EXCEPT ![r] =
            [NoReq EXCEPT !.kind = kind, !.content = content,
                          !.history = conversationHistory, !.useRAG = useRAG,
                          !.settings = settings,
                          !.pc = IF useRAG THEN "embed"
                                 ELSE IF kind = "stream" THEN "create"
                                 ELSE "complete"]]
    /\ UNCHANGED <<res, storeVars, docVars, nodeEnv, clientVars>>

\* Verify conversation exists and belongs to user; take history and settings.
VerifyConversation(r) ==
    /\ reqs[r].pc = "getConversation"
    /\ LET found == getConversation(reqs[r].convId, reqs[r].userId) IN
       IF found = {} THEN Throw(r, NotFoundError)
       ELSE /\ \E cv \in found :
                reqs' = [reqs EXCEPT ![r].pc = "userCreate",
                                     ![r].history = HistoryOf(MessagesOf(cv.id)),
                                     ![r].settings = cv.settings]
            /\ UNCHANGED res
    /\ UNCHANGED <<storeVars, docVars, nodeEnv, clientVars>>

\* chatService.addMessage, first statement: prisma.message.create
MessageCreate(r, role, content, sources, nextPc) ==
    IF MessageForeignKeyHolds(reqs[r].convId) THEN
        /\ messages' = Append(messages,
                [id |-> IdOf("m", nextMsgId), conversationId |-> reqs[r].convId,
                 role |-> role, content |-> content, sources |-> sources,
                 by |-> r])
        /\ nextMsgId' = nextMsgId + 1
        /\ reqs' = [reqs EXCEPT ![r].pc = nextPc,
                                ![r].asstMsgId = IF role = "assistant"
                                                 THEN IdOf("m", nextMsgId) ELSE @]
        /\ UNCHANGED res
    ELSE
        /\ Throw(r, PrismaForeignKeyError)
        /\ UNCHANGED <<messages, nextMsgId>>

\* Save user message (create).
AddUserMessageCreate(r) ==
    /\ reqs[r].pc = "userCreate"
    /\ MessageCreate(r, "user", reqs[r].content, Undefined, "userTouch")
    /\ UNCHANGED <<conversations, nextConvId, deletedConvs, docVars, nodeEnv, clientVars>>

\* chatService.addMessage, second statement: prisma.conversation.update
\* (only updatedAt changes; it throws when the row is gone).
AddUserMessageTouch(r) ==
    /\ reqs[r].pc = "userTouch"
    /\ IF ConversationExists(reqs[r].convId)
       THEN /\ reqs' = [reqs EXCEPT ![r].pc = "embed"]
            /\ UNCHANGED res
       ELSE Throw(r, PrismaNotFoundError)
    /\ UNCHANGED <<storeVars, docVars, nodeEnv, clientVars>>

\* retrievalService.search with one retry of a failed embedding call.
SearchEmbedRetry(r) ==
    /\ reqs[r].pc = "embed"
    /\ \/ /\ \E e \in Embeddings :
                reqs' = [reqs EXCEPT ![r].pc = "query", ![r].queryEmbedding = e,
                                     ![r].embedCalls = @ + 1]
          /\ UNCHANGED res
       \/ /\ reqs[r].embedCalls = 0
          /\ reqs' = [reqs EXCEPT ![r].embedCalls = @ + 1]
          /\ UNCHANGED res
       \/ /\ reqs[r].embedCalls > 0
          /\ reqs' = [reqs EXCEPT ![r].pc = "failed", ![r].error = OpenAIError,
                                  ![r].embedCalls = @ + 1]
          /\ res' = [res EXCEPT ![r] = sendErrorResponse(res[r], OpenAIError)]
    /\ UNCHANGED <<storeVars, docVars, nodeEnv, clientVars>>

\* retrievalService.search: embeddingsService.embed(query), one API call.
SearchEmbed(r) ==
    /\ reqs[r].pc = "embed"
    /\ \/ /\ \E e \in Embeddings :
                reqs' = [reqs EXCEPT ![r].pc = "query", ![r].queryEmbedding = e,
                                     ![r].embedCalls = @ + 1]
          /\ UNCHANGED res
       \/ /\ reqs' = [reqs EXCEPT ![r].pc = "failed", ![r].error = OpenAIError,
                                  ![r].embedCalls = @ + 1]
          /\ res' = [res EXCEPT ![r] = sendErrorResponse(res[r], OpenAIError)]
    /\ UNCHANGED <<storeVars, docVars, nodeEnv, clientVars>>

\* retrievalService.search: the vector query, filter and map; in stream the
\* generator then yields the sources and the controller writes them.
SearchQuery(r) ==
    /\ reqs[r].pc = "query"
    /\ \E ranked \in RankedLists(reqs[r].queryEmbedding, reqs[r].settings.topK,
                                 reqs[r].settings.documentIds) :
        LET found == FilterAndMap(ranked, reqs[r].queryEmbedding,
                                  reqs[r].settings.threshold) IN
        IF reqs[r].kind = "stream" THEN
            /\ reqs' = [reqs EXCEPT ![r].pc = "create", ![r].sources = found]
            /\ res' = [res EXCEPT ![r] = Write(res[r],
                    JObj(<<JStr(K_type), JStr(T_sources), JStr(K_data), found>>))]
        ELSE
            /\ reqs' = [reqs EXCEPT ![r].pc = "complete", ![r].sources = found]
            /\ UNCHANGED res
    /\ UNCHANGED <<storeVars, docVars, nodeEnv, clientVars>>

\* The messages array the request passes to openai.chat.completions.create.
MessagesOfCall(r) ==
    BuildMessages(reqs[r].content, reqs[r].history,
                  ContextPrompt(reqs[r].useRAG, reqs[r].sources))

\* completionService.stream: openai.chat.completions.create({stream: true});
\* prompt is history: the messages argument of the call.
StreamCreate(r) ==
    /\ reqs[r].pc = "create"
    /\ \/ /\ reqs' = [reqs EXCEPT ![r].pc = "deltas", ![r].completionCalls = @ + 1,
                                  ![r].prompt = MessagesOfCall(r)]
          /\ UNCHANGED res
       \/ /\ reqs' = [reqs EXCEPT ![r].pc = "failed", ![r].error = OpenAIError,
                                  ![r].completionCalls = @ + 1,
                                  ![r].prompt = MessagesOfCall(r)]
          /\ res' = [res EXCEPT ![r] = sendErrorResponse(res[r], OpenAIError)]
    /\ UNCHANGED <<storeVars, docVars, nodeEnv, clientVars>>

\* The generator without `if (content)`: every delta, empty ones too, is
\* yielded and written.
StreamDeltaYieldEmpty(r) ==
    /\ reqs[r].pc = "deltas"
    /\ Len(reqs[r].produced) < MaxDeltas
    /\ \E d \in DeltaValues :
        /\ reqs' = [reqs EXCEPT ![r].produced = Append(@, d),
                                ![r].fullContent = @ \o d]
        /\ res' = [res EXCEPT ![r] = Write(res[r],
                JObj(<<JStr(K_type), JStr(T_content), JStr(K_data), JStr(d)>>))]
    /\ UNCHANGED <<storeVars, docVars, nodeEnv, clientVars>>

\* The controller with `fullContent = chunk.data` in place of `+=`.
StreamDeltaOverwrite(r) ==
    /\ reqs[r].pc = "deltas"
    /\ Len(reqs[r].produced) < MaxDeltas
    /\ \E d \in DeltaValues :
        IF d # <<>> THEN
            /\ reqs' = [reqs EXCEPT ![r].produced = Append(@, d),
                                    ![r].fullContent = d]
            /\ res' = [res EXCEPT ![r] = Write(res[r],
                    JObj(<<JStr(K_type), JStr(T_content), JStr(K_data), JStr(d)>>))]
        ELSE
            /\ reqs' = [reqs EXCEPT ![r].produced = Append(@, d)]
            /\ UNCHANGED res
    /\ UNCHANGED <<storeVars, docVars, nodeEnv, clientVars>>

\* for await (const chunk of stream): one delta arrives; a non-empty one is
\* yielded as content, added to fullContent and written.
StreamDelta(r) ==
    /\ reqs[r].pc = "deltas"
    /\ Len(reqs[r].produced) < MaxDeltas
    /\ \E d \in DeltaValues :
        IF d # <<>> THEN
            /\ reqs' = [reqs EXCEPT ![r].produced = Append(@, d),
                                    ![r].fullContent = @ \o d]
            /\ res' = [res EXCEPT ![r] = Write(res[r],
                    JObj(<<JStr(K_type), JStr(T_content), JStr(K_data), JStr(d)>>))]
        ELSE
            /\ reqs' = [reqs EXCEPT ![r].produced = Append(@, d)]
            /\ UNCHANGED res
    /\ UNCHANGED <<storeVars, docVars, nodeEnv, clientVars>>

\* A stream handler that saves the content relayed so far as the assistant
\* message when the completion stream breaks.
StreamErrorSavePartial(r) ==
    /\ reqs[r].pc = "deltas"
    /\ Throw(r, OpenAIError)
    /\ messages' = Append(messages,
            [id |-> IdOf("m", nextMsgId), conversationId |-> reqs[r].convId,
             role |-> "assistant", content |-> reqs[r].fullContent,
             sources |-> reqs[r].sources, by |-> r])
    /\ nextMsgId' = nextMsgId + 1
    /\ UNCHANGED <<conversations, nextConvId, deletedConvs, docVars, nodeEnv, clientVars>>

\* The completion stream breaks with an error.
StreamError(r) ==
    /\ reqs[r].pc = "deltas"
    /\ Throw(r, OpenAIError)
    /\ UNCHANGED <<storeVars, docVars, nodeEnv, clientVars>>

\* The completion stream ends: the generator yields done and the controller
\* enters its done branch.
StreamEnd(r) ==
    /\ reqs[r].pc = "deltas"
    /\ reqs' = [reqs EXCEPT ![r].pc = "asstCreate"]
    /\ UNCHANGED <<res, storeVars, docVars, nodeEnv, clientVars>>

\* complete whose caller also stores the answer of a quick chat as a message.
CompleteSavingAnswer(r) ==
    /\ reqs[r].pc = "complete"
    /\ \/ \E answer \in Answers :
            IF reqs[r].kind = "quick" THEN
                /\ reqs' = [reqs EXCEPT ![r].pc = "done", ![r].fullContent = answer,
                                        ![r].completionCalls = @ + 1,
                                        ![r].prompt = MessagesOfCall(r)]
                /\ res' = [res EXCEPT ![r] = sendSuccess(res[r], 200)]
                /\ messages' = Append(messages,
                        [id |-> IdOf("m", nextMsgId), conversationId |-> <<>>,
                         role |-> "assistant", content |-> answer,
                         sources |-> reqs[r].sources, by |-> r])
            ELSE
                /\ reqs' = [reqs EXCEPT ![r].pc = "asstCreate", ![r].fullContent = answer,
                                        ![r].completionCalls = @ + 1,
                                        ![r].prompt = MessagesOfCall(r)]
                /\ UNCHANGED <<res, messages>>
       \/ /\ reqs' = [reqs EXCEPT ![r].pc = "failed", ![r].error = OpenAIError,
                                  ![r].completionCalls = @ + 1,
                                  ![r].prompt = MessagesOfCall(r)]
          /\ res' = [res EXCEPT ![r] = sendErrorResponse(res[r], OpenAIError)]
          /\ UNCHANGED messages
    /\ UNCHANGED <<conversations, nextConvId, nextMsgId, deletedConvs, docVars,
                   nodeEnv, clientVars>>

\* completionService.complete: openai.chat.completions.create (one call)
Complete(r) ==
    /\ reqs[r].pc = "complete"
    /\ \/ \E answer \in Answers :
            IF reqs[r].kind = "quick" THEN
                /\ reqs' = [reqs EXCEPT ![r].pc = "done", ![r].fullContent = answer,
                                        ![r].completionCalls = @ + 1,
                                        ![r].prompt = MessagesOfCall(r)]
                /\ res' = [res EXCEPT ![r] = sendSuccess(res[r], 200)]
            ELSE
                /\ reqs' = [reqs EXCEPT ![r].pc = "asstCreate", ![r].fullContent = answer,
                                        ![r].completionCalls = @ + 1,
                                        ![r].prompt = MessagesOfCall(r)]
                /\ UNCHANGED res
       \/ /\ reqs' = [reqs EXCEPT ![r].pc = "failed", ![r].error = OpenAIError,
                                  ![r].completionCalls = @ + 1,
                                  ![r].prompt = MessagesOfCall(r)]
          /\ res' = [res EXCEPT ![r] = sendErrorResponse(res[r], OpenAIError)]
    /\ UNCHANGED <<storeVars, docVars, nodeEnv, clientVars>>

\* Save assistant message (create).
AddAssistantMessageCreate(r) ==
    /\ reqs[r].pc = "asstCreate"
    /\ MessageCreate(r, "assistant", reqs[r].fullContent, reqs[r].sources, "asstTouch")
    /\ UNCHANGED <<conversations, nextConvId, deletedConvs, docVars, nodeEnv, clientVars>>

\* Save assistant message (conversation.update), then answer: the stream
\* handler writes the done event and ends the response, the plain handler
\* sends the JSON result.
AddAssistantMessageTouch(r) ==
    /\ reqs[r].pc = "asstTouch"
    /\ IF ConversationExists(reqs[r].convId) THEN
          /\ reqs' = [reqs EXCEPT ![r].pc = "done"]
          /\ res' = [res EXCEPT ![r] =
                IF reqs[r].kind = "stream"
                THEN [Write(res[r],
                        JObj(<<JStr(K_type), JStr(T_done), JStr(K_data),
                               JObj(<<JStr(K_messageId), JStr(reqs[r].asstMsgId)>>)>>))
                      EXCEPT !.state = "ended"]
                ELSE sendSuccess(res[r], 200)]
       ELSE Throw(r, PrismaNotFoundError)
    /\ UNCHANGED <<storeVars, docVars, nodeEnv, clientVars>>

\* ------------------------------------------------------------------------
\* Conversation operations (chat.service.ts)
\* ------------------------------------------------------------------------

\* createConversation(userId, title, settings ?? DEFAULT_SETTINGS)
createConversation(userId, settings) ==
    /\ nextConvId \in ConvSerials
    /\ conversations' = conversations \cup
            {[id |-> IdOf("c", nextConvId), userId |-> userId, settings |-> settings]}
    /\ nextConvId' = nextConvId + 1
    /\ UNCHANGED <<messages, nextMsgId, deletedConvs, docVars, nodeEnv, reqs, res, clientVars>>

\* deleteConversation that reports success but removes no row.
deleteConversationNoDelete(convId, userId) ==
    LET gone == {cv \in conversations : cv.id = convId /\ cv.userId = userId} IN
    /\ deletedConvs' = deletedConvs \cup {cv.id : cv \in gone}
    /\ UNCHANGED <<conversations, messages>>
    /\ UNCHANGED <<nextConvId, nextMsgId, docVars, nodeEnv, reqs, res, clientVars>>

\* deleteConversation: deleteMany({id, userId}); the rows' messages go too.
deleteConversation(convId, userId) ==
    LET gone == {cv \in conversations : cv.id = convId /\ cv.userId = userId} IN
    /\ conversations' = conversations \ gone
    /\ messages' = CascadeMessages(messages, {cv.id : cv \in gone})
    /\ deletedConvs' = deletedConvs \cup {cv.id : cv \in gone}
    /\ UNCHANGED <<nextConvId, nextMsgId, docVars, nodeEnv, reqs, res, clientVars>>

\* ------------------------------------------------------------------------
\* Conversation handlers (chat.controller.ts) behind requireAuth and validate
\* ------------------------------------------------------------------------

ConversationKinds == {"list", "createConversation", "get", "delete", "update"}

\* A request for a conversation route reaches its handler (authenticated as
\* userId, body and params validated); the routes of list and create have
\* no :id.
StartConversationRequest(r, kind, userId, convId, settings) ==
    /\ reqs[r].kind = "none"
    /\ reqs' = [reqs EXCEPT ![r] =
            [NoReq EXCEPT !.kind = kind, !.userId = userId,
                          !.convId = IF kind \in {"list", "createConversation"}
                                     THEN <<>> ELSE convId,
                          !.settings = settings, !.pc = kind]]
    /\ UNCHANGED <<res, storeVars, docVars, nodeEnv, clientVars>>

\* chatController.getConversations: the rows of the user; seen is history,
\* the conversation rows the response carries.
GetConversationsHandler(r) ==
    /\ reqs[r].pc = "list"
    /\ reqs' = [reqs EXCEPT ![r].pc = "done",
                            ![r].seen = {cv \in conversations : cv.userId = reqs[r].userId}]
    /\ res' = [res EXCEPT ![r] = sendSuccess(res[r], 200)]
    /\ UNCHANGED <<storeVars, docVars, nodeEnv, clientVars>>

\* chatController.createConversation
CreateConversationHandler(r) ==
    /\ reqs[r].pc = "createConversation"
    /\ nextConvId \in ConvSerials
    /\ conversations' = conversations \cup
            {[id |-> IdOf("c", nextConvId), userId |-> reqs[r].userId,
              settings |-> reqs[r].settings]}
    /\ nextConvId' = nextConvId + 1
    /\ reqs' = [reqs EXCEPT ![r].pc = "done", ![r].convId = IdOf("c", nextConvId)]
    /\ res' = [res EXCEPT ![r] = sendSuccess(res[r], 201)]
    /\ UNCHANGED <<messages, nextMsgId, deletedConvs, docVars, nodeEnv, clientVars>>

\* chatController.getConversation: the conversation with its messages, or 404.
GetConversationHandler(r) ==
    /\ reqs[r].pc = "get"
    /\ LET found == getConversation(reqs[r].convId, reqs[r].userId) IN
       IF found = {} THEN Throw(r, NotFoundError)
       ELSE /\ reqs' = [reqs EXCEPT ![r].pc = "done", ![r].seen = found,
                                    ![r].history = HistoryOf(MessagesOf(reqs[r].convId))]
            /\ res' = [res EXCEPT ![r] = sendSuccess(res[r], 200)]
    /\ UNCHANGED <<storeVars, docVars, nodeEnv, clientVars>>

\* chatController.deleteConversation: deleteMany({id, userId}), then 200.
DeleteConversationHandler(r) ==
    /\ reqs[r].pc = "delete"
    /\ LET gone == {cv \in conversations :
                        cv.id = reqs[r].convId /\ cv.userId = reqs[r].userId} IN
        /\ conversations' = conversations \ gone
        /\ messages' = CascadeMessages(messages, {cv.id : cv \in gone})
        /\ deletedConvs' = deletedConvs \cup {cv.id : cv \in gone}
    /\ reqs' = [reqs EXCEPT ![r].pc = "done"]
    /\ res' = [res EXCEPT ![r] = sendSuccess(res[r], 200)]
    /\ UNCHANGED <<nextConvId, nextMsgId, docVars, nodeEnv, clientVars>>

\* updateConversationSettings with the userId left out of the where clause.
UpdateSettingsHandlerAnyUser(r) ==
    /\ reqs[r].pc = "update"
    /\ conversations' =
            {IF cv.id = reqs[r].convId
             THEN [cv EXCEPT !.settings = reqs[r].settings] ELSE cv : cv \in conversations}
    /\ reqs' = [reqs EXCEPT ![r].pc = "done"]
    /\ res' = [res EXCEPT ![r] = sendSuccess(res[r], 200)]
    /\ UNCHANGED <<messages, nextConvId, nextMsgId, deletedConvs, docVars, nodeEnv, clientVars>>

\* chatController.updateSettings: updateMany({id, userId}, {settings}), then
\* 200 whatever the number of rows updated.
UpdateSettingsHandler(r) ==
    /\ reqs[r].pc = "update"
    /\ conversations' =
            {IF cv.id = reqs[r].convId /\ cv.userId = reqs[r].userId
             THEN [cv EXCEPT !.settings = reqs[r].settings] ELSE cv : cv \in conversations}
    /\ reqs' = [reqs EXCEPT ![r].pc = "done"]
    /\ res' = [res EXCEPT ![r] = sendSuccess(res[r], 200)]
    /\ UNCHANGED <<messages, nextConvId, nextMsgId, deletedConvs, docVars, nodeEnv, clientVars>>

\* The response is complete and the request is over: its slot serves the
\* next request.
Finish(r) ==
    /\ reqs[r].pc \in {"done", "failed"}
    /\ reqs' = [reqs EXCEPT ![r] = NoReq]
    /\ res' = [res EXCEPT ![r] = NoRes]
    /\ UNCHANGED <<storeVars, docVars, nodeEnv, clientVars>>

\* ------------------------------------------------------------------------
\* The client (useChatStreaming.sendMessage, ChatView.sendStreamingMessage)
\* ------------------------------------------------------------------------

\* The request the client's fetch is served by.
CR == 1


Null == [null |-> TRUE, text |-> <<>>]
NonNull(text) == [null |-> FALSE, text |-> text]
\* Error messages are kept as whole strings.
NullError == [null |-> TRUE, text |-> ""]
ErrorText(text) == [null |-> FALSE, text |-> text]

\* setPendingUserMessage(content); setIsStreaming(true); ...; fetch(...)
ClientSend(convId, content) ==
    /\ cPc = "idle"
    /\ pendingUserMessage' = NonNull(content)
    /\ isStreaming' = TRUE
    /\ streamingContent' = <<>>
    /\ streamingSources' = JArr(<<>>)
    /\ error' = NullError
    /\ cPc' = "fetching"
    /\ reqs' = [reqs EXCEPT ![CR] =
            [NoReq EXCEPT !.kind = "stream", !.userId = "u1", !.convId = convId,
                          !.content = content, !.pc = "getConversation"]]
    /\ UNCHANGED <<variant, buffer, rdPos, handled, cachedMessages, connClosed,
                   res, storeVars, docVars, nodeEnv>>

\* ChatView's catch block without setPendingUserMessage(null).
ClientCatchKeepPending(message) ==
    /\ error' = ErrorText(message)
    /\ isStreaming' = FALSE
    /\ streamingContent' = <<>>
    /\ streamingSources' = JArr(<<>>)
    /\ pendingUserMessage' = pendingUserMessage
    /\ cPc' = "caught"
    /\ UNCHANGED <<variant, buffer, rdPos, handled, cachedMessages, connClosed>>

\* catch (err) { setError(...) } and the clearing of the streaming state:
\* the hook clears in finally, ChatView in the catch block.
ClientCatch(message) ==
    /\ error' = ErrorText(message)
    /\ isStreaming' = FALSE
    /\ streamingContent' = <<>>
    /\ streamingSources' = JArr(<<>>)
    /\ pendingUserMessage' = Null
    /\ cPc' = "caught"
    /\ UNCHANGED <<variant, buffer, rdPos, handled, cachedMessages, connClosed>>

\* fetch rejects (network failure before a response arrives).
ClientFetchReject ==
    /\ cPc = "fetching"
    /\ ClientCatch("Failed to fetch")
    /\ UNCHANGED <<reqs, res, storeVars, docVars, nodeEnv>>

\* fetch resolves once the response headers are there:
\* if (!response.ok) throw; if (!reader) throw.
ClientFetchResolve ==
    /\ cPc = "fetching"
    /\ res[CR].headersSent
    /\ IF res[CR].status < 200 \/ res[CR].status > 299
       THEN ClientCatch("Failed to send message")
       ELSE \E hasBody \in BOOLEAN :
            IF hasBody
            THEN /\ cPc' = "reading"
                 /\ UNCHANGED <<variant, isStreaming, streamingContent,
                                streamingSources, pendingUserMessage, error, buffer,
                                rdPos, handled, cachedMessages, connClosed>>
            ELSE ClientCatch("No response body")
    /\ UNCHANGED <<reqs, res, storeVars, docVars, nodeEnv>>

\* The body of `for (const line of lines)`, folded over the lines.  st is
\* [content, sources, streaming, handled].
HandleLine(st, line) ==
    IF ~StartsWithData(line) THEN st
    ELSE LET p == JSONparse(SubSeq(line, 7, Len(line))) IN
         IF ~p.ok THEN st
         ELSE LET type == Get(p.v, K_type)
                  data == Get(p.v, K_data)
              IN IF type = JStr(T_content) THEN
                     [st EXCEPT !.content = @ \o data.s,
                                !.handled = Append(@, p.v)]
                 ELSE IF type = JStr(T_sources) THEN
                     [st EXCEPT !.sources = data,
                                !.handled = Append(@, p.v)]
                 ELSE IF type = JStr(T_done) THEN
                     [st EXCEPT !.streaming = IF variant = "view" THEN FALSE ELSE @,
                                !.handled = Append(@, p.v)]
                 ELSE st

RECURSIVE HandleLines(_, _)
HandleLines(st, lines) ==
    IF lines = <<>> THEN st
    ELSE HandleLines(HandleLine(st, Head(lines)), Tail(lines))

\* One turn of the read loop with a chunk of n characters:
\* buffer += decode(value); lines = buffer.split("\n\n"); buffer = lines.pop()
ClientRead(n) ==
    /\ cPc = "reading"
    /\ rdPos + n <= Len(res[CR].wire)
    /\ LET value == SubSeq(res[CR].wire, rdPos + 1, rdPos + n)
           lines == Split(buffer \o value)
           st == HandleLines([content |-> streamingContent,
                              sources |-> streamingSources,
                              streaming |-> isStreaming,
                              handled |-> handled],
                             SubSeq(lines, 1, Len(lines) - 1))
       IN /\ buffer' = lines[Len(lines)]
          /\ streamingContent' = st.content
          /\ streamingSources' = st.sources
          /\ isStreaming' = st.streaming
          /\ handled' = st.handled
    /\ rdPos' = rdPos + n
    /\ UNCHANGED <<variant, cPc, pendingUserMessage, error, cachedMessages, connClosed,
                   reqs, res, storeVars, docVars, nodeEnv>>

\* reader.read() gives done: the loop breaks.  The hook's finally block
\* clears the streaming state; ChatView changes nothing.  A destroyed
\* connection is seen as a plain end of stream when the transport delimits
\* the body by the close.
ClientReadDone ==
    /\ cPc = "reading"
    /\ rdPos = Len(res[CR].wire)
    /\ res[CR].state \in {"ended", "destroyed"}
    /\ cPc' = "returned"
    /\ IF variant = "hook"
       THEN /\ isStreaming' = FALSE
            /\ streamingContent' = <<>>
            /\ streamingSources' = JArr(<<>>)
            /\ pendingUserMessage' = Null
       ELSE UNCHANGED <<isStreaming, streamingContent, streamingSources,
                        pendingUserMessage>>
    /\ UNCHANGED <<variant, error, buffer, rdPos, handled, cachedMessages, connClosed,
                   reqs, res, storeVars, docVars, nodeEnv>>

\* reader.read() rejects: the connection was destroyed or the network failed.
ClientReadReject ==
    /\ cPc = "reading"
    /\ ClientCatch("network error")
    /\ UNCHANGED <<reqs, res, storeVars, docVars, nodeEnv>>

\* The user leaves the page: the browser closes the connection.
ClientClose ==
    /\ cPc \in {"fetching", "reading"}
    /\ cPc' = "closed"
    /\ connClosed' = TRUE
    /\ UNCHANGED <<variant, isStreaming, streamingContent, streamingSources,
                   pendingUserMessage, error, buffer, rdPos, handled, cachedMessages,
                   reqs, res, storeVars, docVars, nodeEnv>>

\* ChatView's useQuery(["conversation", id]) refetches (after an
\* invalidation, on focus, ...): GET /api/chat/conversations/:id.
ViewRefetch ==
    /\ variant = "view"
    /\ cPc # "closed"
    /\ \E cv \in getConversation(IdOf("c", 1), "u1") :
         /\ cachedMessages # MessagesOf(cv.id)
         /\ cachedMessages' = MessagesOf(cv.id)
    /\ UNCHANGED <<variant, cPc, isStreaming, streamingContent, streamingSources,
                   pendingUserMessage, error, buffer, rdPos, handled, connClosed,
                   reqs, res, storeVars, docVars, nodeEnv>>

\* [...messages].reverse().find(m => m.role === role)
RECURSIVE LastWithRole(_, _)
LastWithRole(msgs, role) ==
    IF msgs = <<>> THEN <<>>
    ELSE IF msgs[Len(msgs)].role = role THEN <<msgs[Len(msgs)]>>
    ELSE LastWithRole(SubSeq(msgs, 1, Len(msgs) - 1), role)

\* ChatView's effect "auto-clear streaming state when messages sync":
\* it runs after a render in which messages, pendingUserMessage or
\* streamingContent changed.
ViewSyncEffect ==
    /\ variant = "view"
    /\ cPc # "closed"
    /\ LET lastUser == LastWithRole(cachedMessages, "user")
           lastAsst == LastWithRole(cachedMessages, "assistant")
           clearPending == /\ Len(cachedMessages) > 0
                           /\ ~pendingUserMessage.null
                           /\ lastUser # <<>>
                           /\ lastUser[1].content = pendingUserMessage.text
           clearContent == /\ Len(cachedMessages) > 0
                           /\ streamingContent # <<>>
                           /\ lastAsst # <<>>
                           /\ lastAsst[1].content = streamingContent
       IN /\ clearPending \/ clearContent
          /\ pendingUserMessage' = IF clearPending THEN Null ELSE pendingUserMessage
          /\ streamingContent' = IF clearContent THEN <<>> ELSE streamingContent
          /\ streamingSources' = IF clearContent THEN JArr(<<>>) ELSE streamingSources
    /\ UNCHANGED <<variant, cPc, isStreaming, error, buffer, rdPos, handled,
                   cachedMessages, connClosed, reqs, res, storeVars, docVars, nodeEnv>>

\* ------------------------------------------------------------------------
\* Documents: upload, chunking, background embeddings, delete
\* ------------------------------------------------------------------------

Uploads == {1}

\* chunkText's default maxChunkSize
MAX_CHUNK_SIZE == 1000

\* Length of the paragraphs of the long document.
ParaLen == 501

\* String.prototype.trim
Whitespace == {" ", NL, "\t", "\r"}
Trim(text) ==
    IF \A i \in 1..Len(text) : text[i] \in Whitespace THEN <<>>
    ELSE LET first == CHOOSE i \in 1..Len(text) :
                        /\ text[i] \notin Whitespace
                        /\ \A j \in 1..(i - 1) : text[j] \in Whitespace
             RevIdx(i) == Len(text) + 1 - i
             last == RevIdx(CHOOSE i \in 1..Len(text) :
                        /\ text[RevIdx(i)] \notin Whitespace
                        /\ \A j \in 1..(i - 1) : text[RevIdx(j)] \in Whitespace)
         IN SubSeq(text, first, last)

\* text.split(/\n\n+/) from position from on: a separator is a longest run
\* of two or more newlines.
RECURSIVE SplitParagraphs(_, _)
SplitParagraphs(text, from) ==
    LET IsSep(p) == text[p] = NL /\ text[p + 1] = NL
        Before(p) == \A q \in from..(p - 1) : ~IsSep(q)
    IN IF \A p \in from..(Len(text) - 1) : ~IsSep(p)
       THEN <<SubSeq(text, from, Len(text))>>
       ELSE LET p == CHOOSE q \in from..(Len(text) - 1) : IsSep(q) /\ Before(q)
                e == IF \A q \in p..Len(text) : text[q] = NL THEN Len(text) + 1
                     ELSE CHOOSE q \in p..Len(text) :
                            text[q] # NL /\ \A q2 \in p..(q - 1) : text[q2] = NL
            IN <<SubSeq(text, from, p - 1)>> \o SplitParagraphs(text, e)

\* The body of chunkText's loop, folded over the paragraphs; st is
\* [chunks, currentChunk].
RECURSIVE ChunkLoop(_, _, _)
ChunkLoop(st, paragraphs, maxChunkSize) ==
    IF paragraphs = <<>> THEN st
    ELSE LET trimmed == Trim(Head(paragraphs))
             full == /\ Len(st.currentChunk) + Len(trimmed) > maxChunkSize
                     /\ st.currentChunk # <<>>
             pushed == IF full THEN Append(st.chunks, Trim(st.currentChunk))
                       ELSE st.chunks
             cur == IF full THEN <<>> ELSE st.currentChunk
         IN IF trimmed = <<>> THEN ChunkLoop(st, Tail(paragraphs), maxChunkSize)
            ELSE ChunkLoop([chunks |-> pushed,
                            currentChunk |-> cur
                                \o (IF cur # <<>> THEN <<NL, NL>> ELSE <<>>)
                                \o trimmed],
                           Tail(paragraphs), maxChunkSize)

\* chunkText without the push of the last currentChunk after the loop.
chunkTextNoLastPush(text, maxChunkSize) ==
    LET st == ChunkLoop([chunks |-> <<>>, currentChunk |-> <<>>],
                        SplitParagraphs(text, 1), maxChunkSize)
    IN IF Len(st.chunks) > 0 THEN st.chunks ELSE <<Trim(text)>>

\* chunkText(text, maxChunkSize = 1000)
chunkText(text, maxChunkSize) ==
    LET st == ChunkLoop([chunks |-> <<>>, currentChunk |-> <<>>],
                        SplitParagraphs(text, 1), maxChunkSize)
        out == IF Trim(st.currentChunk) # <<>>
               THEN Append(st.chunks, Trim(st.currentChunk))
               ELSE st.chunks
    IN IF Len(out) > 0 THEN out ELSE <<Trim(text)>>

\* estimateTokens: Math.ceil(text.length / 4)
estimateTokens(text) == (Len(text) + 3) \div 4

\* The files uploaded: an empty one, a one-paragraph one, a two-paragraph
\* one that fits one chunk, and a two-paragraph one that does not.
LongText ==
    [i \in 1..(2 * ParaLen + 2) |->
        IF i <= ParaLen THEN "a" ELSE IF i <= ParaLen + 2 THEN NL ELSE "b"]
DocTexts == {<<>>, <<"a">>, <<"a", NL, NL, "b">>, LongText}

\* maxChunkSize and texts are history: the argument and the result of a
\* direct call of chunkText.
NoUpload == [pc |-> "none", content |-> <<>>, docId |-> <<>>, chunkCount |-> 0,
             status |-> 0, maxChunkSize |-> MAX_CHUNK_SIZE, texts |-> <<>>,
             bodyStatus |-> ""]
NoJob == [pc |-> "none", documentId |-> <<>>, found |-> <<>>, embeddings |-> <<>>,
          i |-> 1]

InitPipeline ==
    /\ uploads = [u \in Uploads |-> NoUpload]
    /\ jobs = [u \in Uploads |-> NoJob]
    /\ deletedDocs = {}

\* chunkText(text, maxChunkSize) is called and returns.
ChunkTextCall(u, text, maxChunkSize) ==
    /\ uploads[u].pc = "none"
    /\ uploads' = [uploads EXCEPT ![u] =
            [NoUpload EXCEPT !.pc = "returned", !.content = text,
                             !.maxChunkSize = maxChunkSize,
                             !.texts = chunkText(text, maxChunkSize)]]
    /\ UNCHANGED <<documents, chunks, nextDocId, nextChunkId, jobs, deletedDocs,
                   storeVars, nodeEnv, reqs, res, clientVars>>

DocumentExists(docId) == \E d \in documents : d.id = docId

\* DocumentChunk.documentId references Document.id.
ChunkForeignKeyHolds(docId) == DocumentExists(docId)

\* POST /upload: documentsService.createDocument
UploadCreateDocument(u, content) ==
    /\ uploads[u].pc = "none"
    /\ nextDocId <= 9
    /\ documents' = documents \cup {[id |-> IdOf("d", nextDocId), content |-> content]}
    /\ nextDocId' = nextDocId + 1
    /\ uploads' = [uploads EXCEPT ![u] =
            [NoUpload EXCEPT !.pc = "chunk", !.content = content,
                             !.docId = IdOf("d", nextDocId)]]
    /\ UNCHANGED <<chunks, nextChunkId, jobs, deletedDocs, storeVars, nodeEnv,
                   reqs, res, clientVars>>

\* The upload handler reporting the number of paragraphs as chunkCount.
UploadCreateChunksCountParagraphs(u) ==
    /\ uploads[u].pc = "chunk"
    /\ LET texts == chunkText(uploads[u].content, MAX_CHUNK_SIZE) IN
       IF ChunkForeignKeyHolds(uploads[u].docId) THEN
            /\ nextChunkId + Len(texts) <= 10
            /\ chunks' = chunks \cup
                    {[id |-> IdOf("k", nextChunkId + i - 1),
                      documentId |-> uploads[u].docId,
                      content |-> texts[i],
                      tokenCount |-> estimateTokens(texts[i]),
                      chunkIndex |-> i - 1,
                      embedding |-> "NULL"] : i \in 1..Len(texts)}
            /\ nextChunkId' = nextChunkId + Len(texts)
            /\ uploads' = [uploads EXCEPT ![u].pc = "respond",
                    ![u].chunkCount = Len(SplitParagraphs(uploads[u].content, 1))]
       ELSE /\ uploads' = [uploads EXCEPT ![u].pc = "failed",
                    ![u].status = errorHandler(PrismaForeignKeyError, nodeEnv).status]
            /\ UNCHANGED <<chunks, nextChunkId>>
    /\ UNCHANGED <<documents, nextDocId, jobs, deletedDocs, storeVars, nodeEnv,
                   reqs, res, clientVars>>

\* POST /upload: chunkText(content) and documentsService.createChunks
\* (createMany); a failure goes to next(error).
UploadCreateChunks(u) ==
    /\ uploads[u].pc = "chunk"
    /\ LET texts == chunkText(uploads[u].content, MAX_CHUNK_SIZE) IN
       IF ChunkForeignKeyHolds(uploads[u].docId) THEN
            /\ nextChunkId + Len(texts) <= 10
            /\ chunks' = chunks \cup
                    {[id |-> IdOf("k", nextChunkId + i - 1),
                      documentId |-> uploads[u].docId,
                      content |-> texts[i],
                      tokenCount |-> estimateTokens(texts[i]),
                      chunkIndex |-> i - 1,
                      embedding |-> "NULL"] : i \in 1..Len(texts)}
            /\ nextChunkId' = nextChunkId + Len(texts)
            /\ uploads' = [uploads EXCEPT ![u].pc = "respond",
                                          ![u].chunkCount = Len(texts)]
       ELSE /\ uploads' = [uploads EXCEPT ![u].pc = "failed",
                    ![u].status = errorHandler(PrismaForeignKeyError, nodeEnv).status]
            /\ UNCHANGED <<chunks, nextChunkId>>
    /\ UNCHANGED <<documents, nextDocId, jobs, deletedDocs, storeVars, nodeEnv,
                   reqs, res, clientVars>>

\* POST /upload: start processDocumentEmbeddings without awaiting it, then
\* sendSuccess(..., 201).
UploadRespond(u) ==
    /\ uploads[u].pc = "respond"
    /\ jobs' = [jobs EXCEPT ![u] = [NoJob EXCEPT !.pc = "find",
                                                 !.documentId = uploads[u].docId]]
    /\ uploads' = [uploads EXCEPT ![u].pc = "done", ![u].status = 201,
                                  ![u].bodyStatus = "processing"]
    /\ UNCHANGED <<documents, chunks, nextDocId, nextChunkId, deletedDocs, storeVars,
                   nodeEnv, reqs, res, clientVars>>

\* The orders in which findMany may return a set of rows.
Orderings(rows) ==
    {s \in [1..Cardinality(rows) -> rows] :
        \A i, j \in 1..Cardinality(rows) : i # j => s[i] # s[j]}

\* processDocumentEmbeddings: findMany({documentId}); nothing found ends it.
JobFind(u) ==
    /\ jobs[u].pc = "find"
    /\ \E found \in Orderings({k \in chunks : k.documentId = jobs[u].documentId}) :
         jobs' = [jobs EXCEPT ![u].found = [i \in 1..Len(found) |->
                                                [id |-> found[i].id,
                                                 content |-> found[i].content]],
                              ![u].pc = IF Len(found) = 0 THEN "done" ELSE "embed"]
    /\ UNCHANGED <<documents, chunks, nextDocId, nextChunkId, uploads, deletedDocs,
                   storeVars, nodeEnv, reqs, res, clientVars>>

\* A job whose failure is reported on the upload: the response becomes 500.
JobEmbedBatchFailUpload(u) ==
    /\ jobs[u].pc = "embed"
    /\ \/ /\ \E es \in [1..Len(jobs[u].found) -> Embeddings] :
                jobs' = [jobs EXCEPT ![u].embeddings = es, ![u].pc = "store"]
          /\ UNCHANGED uploads
       \/ /\ jobs' = [jobs EXCEPT ![u].pc = "failed"]
          /\ uploads' = [uploads EXCEPT ![u].status = 500, ![u].bodyStatus = "failed"]
    /\ UNCHANGED <<documents, chunks, nextDocId, nextChunkId, deletedDocs,
                   storeVars, nodeEnv, reqs, res, clientVars>>

\* processDocumentEmbeddings: embeddingsService.embedBatch(contents), one
\* API call; its failure rejects the job's promise, which is logged.
JobEmbedBatch(u) ==
    /\ jobs[u].pc = "embed"
    /\ \/ \E es \in [1..Len(jobs[u].found) -> Embeddings] :
            jobs' = [jobs EXCEPT ![u].embeddings = es, ![u].pc = "store"]
       \/ jobs' = [jobs EXCEPT ![u].pc = "failed"]
    /\ UNCHANGED <<documents, chunks, nextDocId, nextChunkId, uploads, deletedDocs,
                   storeVars, nodeEnv, reqs, res, clientVars>>

\* storeEmbedding as an UPDATE that also resets tokenCount.
storeEmbeddingResetTokens(cks, chunkId, embedding) ==
    {IF k.id = chunkId THEN [k EXCEPT !.embedding = embedding, !.tokenCount = 0]
     ELSE k : k \in cks}

\* storeEmbedding: UPDATE document_chunks SET embedding = ... WHERE id = ...
storeEmbedding(cks, chunkId, embedding) ==
    {IF k.id = chunkId THEN [k EXCEPT !.embedding = embedding] ELSE k : k \in cks}

\* The job's loop storing with an upsert: a missing row is inserted.
JobStoreUpsert(u) ==
    /\ jobs[u].pc = "store"
    /\ LET i == jobs[u].i
           row == jobs[u].found[i]
       IN /\ chunks' =
                IF \E k \in chunks : k.id = row.id
                THEN storeEmbedding(chunks, row.id, jobs[u].embeddings[i])
                ELSE chunks \cup {[id |-> row.id, documentId |-> jobs[u].documentId,
                                   content |-> row.content,
                                   tokenCount |-> estimateTokens(row.content),
                                   chunkIndex |-> i - 1,
                                   embedding |-> jobs[u].embeddings[i]]}
          /\ jobs' = [jobs EXCEPT ![u].i = i + 1,
                                  ![u].pc = IF i = Len(jobs[u].found) THEN "done"
                                            ELSE "store"]
    /\ UNCHANGED <<documents, nextDocId, nextChunkId, uploads, deletedDocs,
                   storeVars, nodeEnv, reqs, res, clientVars>>

\* processDocumentEmbeddings: one turn of the loop over the chunks found.
\* The loop storing the first embedding of the batch for every chunk.
JobStoreFirstEmbedding(u) ==
    /\ jobs[u].pc = "store"
    /\ LET i == jobs[u].i IN
          /\ chunks' = storeEmbedding(chunks, jobs[u].found[i].id, jobs[u].embeddings[1])
          /\ jobs' = [jobs EXCEPT ![u].i = i + 1,
                                  ![u].pc = IF i = Len(jobs[u].found) THEN "done"
                                            ELSE "store"]
    /\ UNCHANGED <<documents, nextDocId, nextChunkId, uploads, deletedDocs,
                   storeVars, nodeEnv, reqs, res, clientVars>>

JobStore(u) ==
    /\ jobs[u].pc = "store"
    /\ LET i == jobs[u].i IN
          /\ chunks' = storeEmbedding(chunks, jobs[u].found[i].id, jobs[u].embeddings[i])
          /\ jobs' = [jobs EXCEPT ![u].i = i + 1,
                                  ![u].pc = IF i = Len(jobs[u].found) THEN "done"
                                            ELSE "store"]
    /\ UNCHANGED <<documents, nextDocId, nextChunkId, uploads, deletedDocs,
                   storeVars, nodeEnv, reqs, res, clientVars>>

\* DELETE /api/documents/:id of an existing document:
\* prisma.document.delete({id}); the row's chunks go too.
deleteDocument(docId) ==
    /\ DocumentExists(docId)
    /\ documents' = {d \in documents : d.id # docId}
    /\ chunks' = CascadeChunks(chunks, docId)
    /\ deletedDocs' = deletedDocs \cup {docId}
    /\ UNCHANGED <<nextDocId, nextChunkId, uploads, jobs, storeVars, nodeEnv,
                   reqs, res, clientVars>>

\* ------------------------------------------------------------------------
\* Specifications
\* ------------------------------------------------------------------------

\* A document store with one embedded chunk, as left by an earlier upload.
SeedChunks ==
    {[id |-> IdOf("k", 1), documentId |-> IdOf("d", 1), content |-> <<"a">>,
      tokenCount |-> 1, chunkIndex |-> 0, embedding |-> "e1"]}
SeedDocuments == {[id |-> IdOf("d", 1), content |-> <<"a">>]}

\* An earlier exchange in conversation c1: a question and its saved answer.
SeedExchange ==
    <<[id |-> IdOf("m", 1), conversationId |-> IdOf("c", 1), role |-> "user",
       content |-> <<"q">>, sources |-> Undefined, by |-> 0],
      [id |-> IdOf("m", 2), conversationId |-> IdOf("c", 1), role |-> "assistant",
       content |-> <<"a">>, sources |-> JArr(<<>>), by |-> 0]>>

InitClient ==
    /\ cPc = "idle"
    /\ isStreaming = FALSE
    /\ streamingContent = <<>>
    /\ streamingSources = JArr(<<>>)
    /\ pendingUserMessage = Null
    /\ error = NullError
    /\ buffer = <<>>
    /\ rdPos = 0
    /\ handled = <<>>
    /\ connClosed = FALSE

InitRequests ==
    /\ reqs = [r \in Reqs |-> NoReq]
    /\ res = [r \in Reqs |-> NoRes]

\* The positions of the response body at which a frame ends.
FrameEnds(wire) ==
    {p \in 2..Len(wire) : wire[p - 1] = NL /\ wire[p] = NL}

\* One client streaming one message into conversation c1 of user u1 (or
\* into an id that does not exist), served by request CR.  The transport
\* delivers the response body frame by frame.
InitStream ==
    /\ conversations = {[id |-> IdOf("c", 1), userId |-> "u1", settings |-> DEFAULT_SETTINGS]}
    /\ nextConvId = 2
    /\ messages = <<>>
    /\ nextMsgId = 1
    /\ deletedConvs = {}
    /\ documents = SeedDocuments
    /\ chunks = SeedChunks
    /\ nextDocId = 2
    /\ nextChunkId = 2
    /\ InitPipeline
    /\ nodeEnv = "production"
    /\ InitRequests
    /\ variant \in {"hook", "view"}
    /\ cachedMessages = messages
    /\ InitClient

ServerStreamStep ==
    \/ VerifyConversation(CR)
    \/ AddUserMessageCreate(CR)
    \/ AddUserMessageTouch(CR)
    \/ SearchEmbed(CR)
    \/ SearchQuery(CR)
    \/ StreamCreate(CR)
    \/ StreamDelta(CR)
    \/ StreamError(CR)
    \/ StreamEnd(CR)
    \/ AddAssistantMessageCreate(CR)
    \/ AddAssistantMessageTouch(CR)

NextStream ==
    \/ \E convId \in {IdOf("c", 1), IdOf("c", 2)}, content \in UserTexts :
            ClientSend(convId, content)
    \/ ClientFetchReject
    \/ ClientFetchResolve
    \/ \E p \in FrameEnds(res[CR].wire) : p > rdPos /\ ClientRead(p - rdPos)
    \/ ClientReadDone
    \/ ClientReadReject
    \/ ClientClose
    \/ ViewRefetch
    \/ ViewSyncEffect
    \/ ServerStreamStep

SpecStream == InitStream /\ [][NextStream]_vars

\* The same exchange with the response body delivered in arbitrary pieces:
\* a second message in a conversation that holds an earlier exchange, an
\* empty document store, and a transport that does not fail.
InitWire ==
    /\ conversations = {[id |-> IdOf("c", 1), userId |-> "u1", settings |-> DEFAULT_SETTINGS]}
    /\ nextConvId = 2
    /\ messages = SeedExchange
    /\ nextMsgId = 3
    /\ deletedConvs = {}
    /\ documents = {}
    /\ chunks = {}
    /\ nextDocId = 1
    /\ nextChunkId = 1
    /\ InitPipeline
    /\ nodeEnv = "production"
    /\ InitRequests
    /\ variant \in {"hook", "view"}
    /\ cachedMessages = messages
    /\ InitClient

\* The sizes of the piece the next read may return when avail characters
\* have arrived: a short piece of any size up to MaxPiece, or everything.
Pieces(avail) ==
    {n \in 1..avail : n <= MaxPiece \/ n = avail}

NextWire ==
    \/ \E content \in UserTexts : ClientSend(IdOf("c", 1), content)
    \/ ClientFetchResolve
    \/ \E n \in Pieces(Len(res[CR].wire) - rdPos) : ClientRead(n)
    \/ ClientReadDone
    \/ ViewRefetch
    \/ ViewSyncEffect
    \/ ServerStreamStep

SpecWire == InitWire /\ [][NextWire]_vars

\* ------------------------------------------------------------------------
\* Properties of the streaming exchange
\* ------------------------------------------------------------------------

NonEmptyDeltas(produced) ==
    SelectSeq(produced, LAMBDA d : d # <<>>)

EventTypes == {JStr(T_sources), JStr(T_content), JStr(T_done)}

\* The data of the content events of a sequence of events, concatenated.
RECURSIVE ConcatContent(_)
ConcatContent(events) ==
    IF events = <<>> THEN <<>>
    ELSE LET e == Head(events) IN
         (IF Get(e, K_type) = JStr(T_content) THEN Get(e, K_data).s ELSE <<>>)
            \o ConcatContent(Tail(events))

RECURSIVE ConcatFrames(_)
ConcatFrames(events) ==
    IF events = <<>> THEN <<>>
    ELSE Frame(Head(events)) \o ConcatFrames(Tail(events))

\* The body is the events' frames and nothing else, and cutting it at the
\* blank lines gives back exactly the events.
FramedAs(wire, events) ==
    LET lines == Split(wire) IN
    /\ wire = ConcatFrames(events)
    /\ Len(lines) = Len(events) + 1
    /\ lines[Len(lines)] = <<>>
    /\ \A i \in 1..Len(events) :
          /\ StartsWithData(lines[i])
          /\ LET p == JSONparse(SubSeq(lines[i], 7, Len(lines[i]))) IN
             p.ok /\ p.v = events[i]

\* The assistant messages saved by request r.
AssistantBy(r) ==
    SelectSeq(messages, LAMBDA m : m.by = r /\ m.role = "assistant")

\* C1: a stream request that runs to completion has written one sources
\* event, then one content event per non-empty delta of the completion API
\* in the order of the deltas, then one done event, and has ended the
\* response; at every moment the body consists of `data: <JSON>\n\n` frames
\* of events of these three types only.
C1_StreamEventOrder ==
    LET w == res[CR].written
        ne == NonEmptyDeltas(reqs[CR].produced)
    IN /\ \A i \in 1..Len(w) : Get(w[i], K_type) \in EventTypes
       /\ FramedAs(res[CR].wire, w)
       /\ reqs[CR].pc = "done" =>
            /\ Len(w) = Len(ne) + 2
            /\ Get(w[1], K_type) = JStr(T_sources)
            /\ \A i \in 1..Len(ne) :
                  /\ Get(w[i + 1], K_type) = JStr(T_content)
                  /\ Get(w[i + 1], K_data) = JStr(ne[i])
            /\ Get(w[Len(w)], K_type) = JStr(T_done)
            /\ res[CR].state = "ended"

\* A completed stream in which the API produced an empty and a non-empty
\* delta and the search found a source.
C1_Witness ==
    /\ reqs[CR].pc = "done"
    /\ Len(reqs[CR].produced) = 2
    /\ Len(res[CR].written) = 3
    /\ reqs[CR].sources # JArr(<<>>)

\* C2: the stream handler saves no assistant message before the done chunk
\* is reached, saves exactly one per completed stream, and that message's
\* content is the concatenation of the data of the content events written
\* and its sources are the data of the sources event.
C2_AssistantSavedOnceAtDone ==
    LET a == AssistantBy(CR)
        w == res[CR].written
    IN /\ reqs[CR].pc \in {"idle", "getConversation", "userCreate", "userTouch",
                           "embed", "query", "create", "deltas", "asstCreate"}
            => a = <<>>
       /\ Len(a) <= 1
       /\ reqs[CR].pc = "done" => Len(a) = 1
       /\ Len(a) = 1 =>
            /\ a[1].content = ConcatContent(w)
            /\ a[1].sources = Get(w[1], K_data)
            /\ Get(w[1], K_type) = JStr(T_sources)

\* A completed stream of two non-empty deltas with a source found.
C2_Witness ==
    /\ reqs[CR].pc = "done"
    /\ Len(NonEmptyDeltas(reqs[CR].produced)) = 2
    /\ Len(AssistantBy(CR)) = 1
    /\ AssistantBy(CR)[1].sources # JArr(<<>>)

\* The cached conversation already holds the answer of this request.
AnswerSynced ==
    \E i \in 1..Len(cachedMessages) :
        cachedMessages[i].by = CR /\ cachedMessages[i].role = "assistant"

\* The events the client has handled are the first events the server wrote,
\* and all of them once the whole body has been read.
EventsReassembled ==
    /\ Len(handled) <= Len(res[CR].written)
    /\ handled = SubSeq(res[CR].written, 1, Len(handled))
    /\ rdPos = Len(res[CR].wire) => handled = res[CR].written

\* In the hook, when the whole body has been read, streamingContent is the
\* concatenation of the data of the content events.
HookReassembly ==
    (variant = "hook" /\ cPc = "reading" /\ rdPos = Len(res[CR].wire))
        => streamingContent = ConcatContent(res[CR].written)

\* C3: however the body is cut into reads, when the client has read the
\* whole body of an ended stream the events it handled are the events the
\* server wrote and its streamingContent is the concatenation of the data
\* of the content events (until the saved answer has been fetched).
C3_ClientReassembly ==
    (/\ cPc = "reading"
     /\ res[CR].state = "ended"
     /\ rdPos = Len(res[CR].wire)
     /\ ~AnswerSynced)
        => /\ handled = res[CR].written
           /\ streamingContent = ConcatContent(res[CR].written)

\* C4: when the streaming send has failed on the client, error is a
\* non-null string, isStreaming is false, streamingContent and
\* streamingSources are empty and pendingUserMessage is null.
C4_FailureClearsState ==
    cPc = "caught" =>
        /\ ~error.null
        /\ isStreaming = FALSE
        /\ streamingContent = <<>>
        /\ streamingSources = JArr(<<>>)
        /\ pendingUserMessage = Null

\* ChatView after a rejected read that came after events had been handled.
C4_Witness ==
    /\ variant = "view"
    /\ cPc = "caught"
    /\ error = ErrorText("network error")
    /\ Len(handled) >= 2

\* C5: once sendMessage / sendStreamingMessage has run to its end, whether
\* through the end of the response stream or through an error, isStreaming
\* is false.
C5_StreamingEnds ==
    cPc \in {"returned", "caught"} => isStreaming = FALSE

\* C6: after the client has closed the connection the server consumes no
\* further delta of the completion stream for the request and saves no
\* assistant message for it.
C6_CloseCancels ==
    [][connClosed =>
        /\ reqs'[CR].produced = reqs[CR].produced
        /\ AssistantBy(CR)' = AssistantBy(CR)]_vars

\* ------------------------------------------------------------------------
\* Concurrent chat requests and conversation operations
\* ------------------------------------------------------------------------

ConvIds == {IdOf("c", n) : n \in ConvSerials}
Kinds == {"send", "stream", "quick"}

\* One conversation of user u1: request CR is of any kind and from either
\* user, the other request is a plain send or a quick chat of the owner,
\* while conversations are created and deleted.
InitChat ==
    /\ conversations = {[id |-> IdOf("c", 1), userId |-> "u1", settings |-> DEFAULT_SETTINGS]}
    /\ nextConvId = 2
    /\ messages = <<>>
    /\ nextMsgId = 1
    /\ deletedConvs = {}
    /\ documents = SeedDocuments
    /\ chunks = SeedChunks
    /\ nextDocId = 2
    /\ nextChunkId = 2
    /\ InitPipeline
    /\ nodeEnv = "production"
    /\ InitRequests
    /\ variant = "hook"
    /\ cachedMessages = <<>>
    /\ InitClient

ServerStep(r) ==
    \/ VerifyConversation(r)
    \/ AddUserMessageCreate(r)
    \/ AddUserMessageTouch(r)
    \/ SearchEmbed(r)
    \/ SearchQuery(r)
    \/ StreamCreate(r)
    \/ StreamDelta(r)
    \/ StreamError(r)
    \/ StreamEnd(r)
    \/ Complete(r)
    \/ AddAssistantMessageCreate(r)
    \/ AddAssistantMessageTouch(r)

NextChat ==
    \/ \E kind \in Kinds, userId \in Users, content \in UserTexts :
            StartRequest(CR, kind, userId, IdOf("c", 1), content)
    \/ \E r \in Reqs \ {CR}, kind \in Kinds \ {"stream"}, content \in UserTexts :
            StartRequest(r, kind, "u1", IdOf("c", 1), content)
    \/ \E r \in Reqs : ServerStep(r)
    \/ createConversation("u2", DEFAULT_SETTINGS)
    \/ \E convId \in ConvIds, userId \in Users : deleteConversation(convId, userId)

SpecChat == InitChat /\ [][NextChat]_vars

\* C7: for every chat request the embedding API and the chat-completion API
\* are each invoked at most once, and a request whose invocation failed has
\* ended with that error (after a failed embedding call the completion API
\* is not invoked at all).
C7_NoRetry ==
    \A r \in Reqs :
        /\ reqs[r].embedCalls <= 1
        /\ reqs[r].completionCalls <= 1
        /\ reqs[r].error = OpenAIError =>
              /\ reqs[r].pc = "failed"
              /\ reqs[r].embedCalls = 1
              /\ reqs[r].queryEmbedding = "NULL" => reqs[r].completionCalls = 0

\* A plain send whose completion call failed next to a quick chat whose
\* embedding call failed.
C7_Witness ==
    \E r, q \in Reqs :
        /\ reqs[r].kind = "send" /\ reqs[r].pc = "failed"
        /\ reqs[r].error = OpenAIError /\ reqs[r].completionCalls = 1
        /\ reqs[q].kind = "quick" /\ reqs[q].pc = "failed"
        /\ reqs[q].error = OpenAIError /\ reqs[q].completionCalls = 0

\* C9: once its owner has deleted a conversation, no message with that
\* conversationId exists, whatever the requests in flight on it do.
C9_DeleteRemovesMessages ==
    \A c \in deletedConvs :
        \A i \in 1..Len(messages) : messages[i].conversationId # c

\* A stream on a conversation that was deleted after the user message was
\* saved: the save of the assistant message was refused.
C9_Witness ==
    \E r \in Reqs :
        /\ reqs[r].convId \in deletedConvs
        /\ reqs[r].kind = "stream"
        /\ res[r].written # <<>>
        /\ reqs[r].pc = "failed"
        /\ reqs[r].error = PrismaForeignKeyError

\* ------------------------------------------------------------------------
\* The error handler on its own
\* ------------------------------------------------------------------------

StatusCodes == {0, 400, 404, 500}
ErrorCodes == {"", "CONVERSATION_NOT_FOUND", "P2003"}
ErrorMessages == {"Conversation not found", "Connection error."}
IssueLists == {<<>>, <<"Required">>, <<"Required", "Too long">>}
NodeEnvs == {"production", "development", "test"}

\* Every error a handler may pass to next(): a ZodError with its issues, or
\* another error with or without statusCode and code.
ErrorInputs ==
    {[zod |-> z, errors |-> es, statusCode |-> sc, code |-> c, message |-> m] :
        z \in BOOLEAN, es \in IssueLists, sc \in StatusCodes, c \in ErrorCodes,
        m \in ErrorMessages}

\* next(error) in a handler of request r: Express runs errorHandler.
NextError(r) ==
    /\ reqs[r].pc = "throwing"
    /\ Throw(r, reqs[r].error)
    /\ UNCHANGED <<storeVars, docVars, nodeEnv, clientVars>>

\* A handler is about to pass an error to next(), before or after the first
\* bytes of the response were written.
InitErr ==
    /\ conversations = {}
    /\ nextConvId = 1
    /\ messages = <<>>
    /\ nextMsgId = 1
    /\ deletedConvs = {}
    /\ documents = {}
    /\ chunks = {}
    /\ nextDocId = 1
    /\ nextChunkId = 1
    /\ InitPipeline
    /\ nodeEnv \in NodeEnvs
    /\ \E err \in ErrorInputs, begun \in BOOLEAN :
         /\ (err.zod <=> err.errors # <<>>)
         /\ reqs = [r \in Reqs |->
                IF r = CR THEN [NoReq EXCEPT !.kind = "stream", !.pc = "throwing",
                                             !.error = err]
                ELSE NoReq]
         /\ res = [r \in Reqs |->
                IF r = CR /\ begun
                THEN Write(NoRes, JObj(<<JStr(K_type), JStr(T_sources),
                                         JStr(K_data), JArr(<<>>)>>))
                ELSE NoRes]
    /\ variant = "hook"
    /\ cachedMessages = <<>>
    /\ InitClient

NextErr == NextError(CR)

SpecErr == InitErr /\ [][NextErr]_vars

\* C8: errorHandler answers every error with one sendError call: 400 and
\* VALIDATION_ERROR for a Zod error; else the error's own statusCode,
\* message and code when it carries a statusCode; else 500 and
\* INTERNAL_ERROR, with the message "Internal server error" when NODE_ENV
\* is production.  A response not yet begun carries exactly that answer.
C8_ErrorMapping ==
    \A r \in Reqs : reqs[r].pc = "failed" =>
        LET err == reqs[r].error
            calls == res[r].sendErrorCalls
        IN /\ Len(calls) = 1
           /\ err.zod =>
                calls[1].status = 400 /\ calls[1].code = "VALIDATION_ERROR"
           /\ (~err.zod /\ err.statusCode # 0) =>
                /\ calls[1].status = err.statusCode
                /\ calls[1].message = err.message
                /\ calls[1].code = err.code
           /\ (~err.zod /\ err.statusCode = 0) =>
                /\ calls[1].status = 500
                /\ calls[1].code = "INTERNAL_ERROR"
                /\ nodeEnv = "production" => calls[1].message = "Internal server error"
           /\ res[r].state = "ended" =>
                /\ res[r].status = calls[1].status
                /\ res[r].message = calls[1].message
                /\ res[r].code = calls[1].code

\* An error without statusCode was answered in production with 500 and the
\* generic message.
C8_Witness ==
    /\ nodeEnv = "production"
    /\ reqs[CR].pc = "failed"
    /\ ~reqs[CR].error.zod /\ reqs[CR].error.statusCode = 0
    /\ reqs[CR].error.code = "P2003"
    /\ res[CR].state = "ended"
    /\ res[CR].status = 500
    /\ res[CR].message = "Internal server error"

\* ------------------------------------------------------------------------
\* Uploads, their background jobs, deletes and searches
\* ------------------------------------------------------------------------

DocIds == {IdOf("d", n) : n \in 1..2}

\* One document uploaded and embedded earlier; a file is uploaded, documents
\* are deleted and a quick chat searches, in any interleaving.
InitDocs ==
    /\ conversations = {}
    /\ nextConvId = 1
    /\ messages = <<>>
    /\ nextMsgId = 1
    /\ deletedConvs = {}
    /\ documents = SeedDocuments
    /\ chunks = SeedChunks
    /\ nextDocId = 2
    /\ nextChunkId = 2
    /\ InitPipeline
    /\ nodeEnv = "production"
    /\ InitRequests
    /\ variant = "hook"
    /\ cachedMessages = <<>>
    /\ InitClient

NextDocs ==
    \/ \E u \in Uploads, content \in DocTexts : UploadCreateDocument(u, content)
    \/ \E u \in Uploads : UploadCreateChunks(u)
    \/ \E u \in Uploads : UploadRespond(u)
    \/ \E u \in Uploads : JobFind(u)
    \/ \E u \in Uploads : JobEmbedBatch(u)
    \/ \E u \in Uploads : JobStore(u)
    \/ \E docId \in DocIds : deleteDocument(docId)
    \/ \E content \in UserTexts : StartRequest(CR, "quick", "u1", <<>>, content)
    \/ SearchEmbed(CR)
    \/ SearchQuery(CR)
    \/ Complete(CR)

\* The job is a chain of promises on the event loop: each pending step (the
\* query, the API call, each UPDATE) eventually settles.
FairJobs ==
    \A u \in Uploads :
        /\ WF_vars(JobFind(u))
        /\ WF_vars(JobEmbedBatch(u))
        /\ WF_vars(JobStore(u))

SpecDocsFair == InitDocs /\ [][NextDocs]_vars /\ FairJobs

SpecDocs == InitDocs /\ [][NextDocs]_vars

\* The documentIds of the results of request r's search.
SourceDocumentIds(r) ==
    {Get(reqs[r].sources.kids[i], K_documentId).s :
        i \in 1..Len(reqs[r].sources.kids)}

\* C10: at every moment no chunk of a deleted document exists, whatever the
\* background job of its upload does, and every search that returns gives
\* no chunk of a document deleted by then.
C10_DeleteRemovesChunks ==
    /\ [](\A k \in chunks : k.documentId \notin deletedDocs)
    /\ [][\A r \in Reqs : reqs'[r].sources # reqs[r].sources =>
            SourceDocumentIds(r)' \cap deletedDocs' = {}]_vars

\* The uploaded document was deleted after its job had read the chunks, and
\* the job then ran through all its stores.
C10_Witness ==
    \E u \in Uploads :
        /\ uploads[u].docId \in deletedDocs
        /\ jobs[u].pc = "done"
        /\ Len(jobs[u].found) = 2
        /\ jobs[u].i = 3

\* documentsService.getDocuments: every document with its _count of chunks.
getDocuments ==
    {[id |-> d.id,
      chunkCount |-> Cardinality({k \in chunks : k.documentId = d.id})] :
        d \in documents}

\* C11: the chunkCount of a successful upload's response is the number of
\* chunks chunkText makes of the file content, and while the document is
\* not deleted it is the number of the document's chunk rows and the
\* chunkCount getDocuments reports for it.
C11_UploadChunkCount ==
    \A u \in Uploads : uploads[u].status = 201 =>
        /\ uploads[u].chunkCount = Len(chunkText(uploads[u].content, MAX_CHUNK_SIZE))
        /\ uploads[u].docId \notin deletedDocs =>
              /\ Cardinality({k \in chunks : k.documentId = uploads[u].docId})
                    = uploads[u].chunkCount
              /\ \E d \in getDocuments :
                    d.id = uploads[u].docId /\ d.chunkCount = uploads[u].chunkCount

\* The two-paragraph file that fits one chunk was uploaded, answered and
\* embedded, and is still there.
C11_Witness ==
    \E u \in Uploads :
        /\ uploads[u].status = 201
        /\ uploads[u].content = <<"a", NL, NL, "b">>
        /\ uploads[u].chunkCount = 1
        /\ uploads[u].docId \notin deletedDocs
        /\ jobs[u].pc = "done"

\* ------------------------------------------------------------------------
\* Search on its own
\* ------------------------------------------------------------------------

\* Two documents: chunks with either embedding, one not embedded yet.
SearchChunks ==
    {[id |-> IdOf("k", 1), documentId |-> IdOf("d", 1), content |-> <<"a">>,
      tokenCount |-> 1, chunkIndex |-> 0, embedding |-> "e1"],
     [id |-> IdOf("k", 2), documentId |-> IdOf("d", 1), content |-> <<"b">>,
      tokenCount |-> 1, chunkIndex |-> 1, embedding |-> "e2"],
     [id |-> IdOf("k", 3), documentId |-> IdOf("d", 2), content |-> <<"c">>,
      tokenCount |-> 1, chunkIndex |-> 0, embedding |-> "e1"],
     [id |-> IdOf("k", 4), documentId |-> IdOf("d", 2), content |-> <<"d">>,
      tokenCount |-> 1, chunkIndex |-> 1, embedding |-> "NULL"]}
SearchDocuments ==
    {[id |-> IdOf("d", 1), content |-> <<"a", NL, NL, "b">>],
     [id |-> IdOf("d", 2), content |-> <<"c", NL, NL, "d">>]}

\* Search options a validated request can carry (threshold in hundredths).
TopKs == {1, 2, 5}
Thresholds == {0, 50, 70, 100}
DocumentFilters == {<<>>, <<IdOf("d", 1)>>, <<IdOf("d", 2)>>}
SearchSettings ==
    {[topK |-> k, threshold |-> t, documentIds |-> f] :
        k \in TopKs, t \in Thresholds, f \in DocumentFilters}

InitSearch ==
    /\ conversations = {}
    /\ nextConvId = 1
    /\ messages = <<>>
    /\ nextMsgId = 1
    /\ deletedConvs = {}
    /\ documents = SearchDocuments
    /\ chunks = SearchChunks
    /\ nextDocId = 3
    /\ nextChunkId = 5
    /\ InitPipeline
    /\ nodeEnv = "production"
    /\ InitRequests
    /\ variant = "hook"
    /\ cachedMessages = <<>>
    /\ InitClient

NextSearch ==
    \/ \E content \in UserTexts, settings \in SearchSettings :
            StartQuickChat(CR, content, settings)
    \/ SearchEmbed(CR)
    \/ SearchQuery(CR)
    \/ Complete(CR)

SpecSearch == InitSearch /\ [][NextSearch]_vars

\* The search of request r has returned.
Searched(r) == reqs[r].pc \in {"complete", "create", "deltas", "asstCreate",
                               "asstTouch", "done"}

\* C12: every result of a search is a chunk whose similarity to the query
\* embedding is at least the threshold, and carries that similarity as its
\* score; no chunk of lower similarity is among the results.
C12_ResultsAboveThreshold ==
    \A r \in Reqs : Searched(r) =>
        \A i \in 1..Len(reqs[r].sources.kids) :
            LET s == reqs[r].sources.kids[i] IN
            \E k \in chunks :
                /\ Get(s, K_id) = JStr(k.id)
                /\ k.embedding # "NULL"
                /\ Similarity(k.embedding, reqs[r].queryEmbedding)
                        >= reqs[r].settings.threshold
                /\ Get(s, K_score) =
                        JNum(ScoreText(Similarity(k.embedding, reqs[r].queryEmbedding)))

\* A search at threshold 0.7 over all documents that kept two chunks and
\* dropped the chunk of similarity 0.5 the query had ranked.
C12_Witness ==
    /\ Searched(CR)
    /\ reqs[CR].settings = [topK |-> 5, threshold |-> 70, documentIds |-> <<>>]
    /\ reqs[CR].queryEmbedding = "e1"
    /\ Len(reqs[CR].sources.kids) = 2

\* C13: a chunk row that exists before and after a step has the same id,
\* documentId, content, tokenCount and metadata after it: a step changes at
\* most the row's embedding.
C13_OnlyEmbeddingChanges ==
    [][\A k \in chunks : \A k2 \in chunks' :
            k2.id = k.id => [k2 EXCEPT !.embedding = k.embedding] = k]_vars

\* The job of an upload has stored the embeddings of both chunks of the
\* document, which is still there.
C13_Witness ==
    \E u \in Uploads :
        /\ jobs[u].pc = "done"
        /\ jobs[u].i = 3
        /\ uploads[u].docId \notin deletedDocs
        /\ \A k \in chunks : k.documentId = uploads[u].docId =>
                k.embedding # "NULL" /\ k.tokenCount = estimateTokens(k.content)

\* ------------------------------------------------------------------------
\* The completion service called with every combination of options
\* ------------------------------------------------------------------------

Histories ==
    {<<>>,
     <<[role |-> "user", content |-> <<"q">>], [role |-> "assistant", content |-> <<"a">>]>>,
     <<[role |-> "assistant", content |-> <<>>], [role |-> "user", content |-> <<"q">>],
       [role |-> "user", content |-> <<"a">>]>>}

InitPrompt == InitSearch

NextPrompt ==
    \/ \E kind \in {"quick", "stream"}, content \in UserTexts, h \in Histories,
          useRAG \in BOOLEAN, settings \in SearchSettings :
            CallCompletion(CR, kind, content, h, useRAG, settings)
    \/ SearchEmbed(CR)
    \/ SearchQuery(CR)
    \/ Complete(CR)
    \/ StreamCreate(CR)

SpecPrompt == InitPrompt /\ [][NextPrompt]_vars

\* The numbered source lines from position i on, separated by blank lines.
RECURSIVE NumberedFrom(_, _)
NumberedFrom(kids, i) ==
    IF i > Len(kids) THEN <<>>
    ELSE <<"[", DigitChar(i), "]", " ">> \o Get(kids[i], K_content).s
         \o (IF i < Len(kids) THEN <<NL, NL>> ELSE <<>>)
         \o NumberedFrom(kids, i + 1)

\* C14: the messages passed to the completion API are one system message
\* (the system prompt followed by the context), then the history in its
\* order with roles and contents unchanged, then the new user message; the
\* context lists the sources as [1]..[n] in retrieval order and is empty
\* when no source was retrieved or RAG is off.
C14_PromptLayout ==
    \A r \in Reqs : reqs[r].completionCalls > 0 =>
        LET p == reqs[r].prompt
            h == reqs[r].history
            kids == reqs[r].sources.kids
            sys == p[1].content
            ctx == SubSeq(sys, Len(SYSTEM_PROMPT) + 1, Len(sys))
        IN /\ Len(p) = Len(h) + 2
           /\ p[1].role = "system"
           /\ SubSeq(sys, 1, Len(SYSTEM_PROMPT)) = SYSTEM_PROMPT
           /\ \A i \in 1..Len(h) : p[i + 1] = h[i]
           /\ p[Len(p)] = [role |-> "user", content |-> reqs[r].content]
           /\ (~reqs[r].useRAG \/ Len(kids) = 0) => ctx = <<>>
           /\ (reqs[r].useRAG /\ Len(kids) > 0) =>
                 ctx = ContextHeader \o NumberedFrom(kids, 1)

\* stream was called with a history of three messages and RAG on, the search
\* found two sources, and the completion API has been called.
C14_Witness ==
    /\ reqs[CR].kind = "stream"
    /\ reqs[CR].completionCalls = 1
    /\ reqs[CR].useRAG
    /\ Len(reqs[CR].sources.kids) = 2
    /\ Len(reqs[CR].history) = 3
    /\ Len(reqs[CR].prompt) = 5

\* ------------------------------------------------------------------------
\* The route middleware: requireAuth (auth.middleware.ts) and validate
\* (validation.middleware.ts) with the Zod schemas (validation.schemas.ts)
\* ------------------------------------------------------------------------

IsDigitCh(c) == c \in {"0", "1", "2", "3", "4", "5", "6", "7", "8", "9"}
DigitVal(c) == CHOOSE n \in 0..9 : DigitChar(n) = c
RECURSIVE DigitsValue(_)
DigitsValue(ds) ==
    IF ds = <<>> THEN 0
    ELSE DigitsValue(SubSeq(ds, 1, Len(ds) - 1)) * 10 + DigitVal(ds[Len(ds)])

\* A JavaScript number: NaN or a value in hundredths.
NaN == [nan |-> TRUE, n |-> 0]
Num(h) == [nan |-> FALSE, n |-> h]

\* Number(string) for the decimal literals (digits with at most one point and
\* two fraction digits); any other text is NaN.
UnsignedToNumber(t) ==
    LET dots == {i \in 1..Len(t) : t[i] = "."} IN
    IF \/ t = <<>>
       \/ t = <<".">>
       \/ Cardinality(dots) > 1
       \/ \E i \in 1..Len(t) : ~IsDigitCh(t[i]) /\ t[i] # "."
    THEN NaN
    ELSE LET p == IF dots = {} THEN Len(t) + 1 ELSE CHOOSE i \in dots : TRUE
             int == SubSeq(t, 1, p - 1)
             frac == SubSeq(t, p + 1, Len(t))
             two == SubSeq(frac \o <<"0", "0">>, 1, 2)
         IN Num(DigitsValue(int) * 100 + DigitsValue(two))

\* Number(string): surrounding whitespace is dropped, the empty text is 0.
StringToNumber(s) ==
    LET t == Trim(s) IN
    IF t = <<>> THEN Num(0)
    ELSE IF t[1] = "-"
         THEN LET u == UnsignedToNumber(Tail(t)) IN
              IF u.nan THEN NaN ELSE Num(0 - u.n)
    ELSE IF t[1] = "+" THEN UnsignedToNumber(Tail(t))
    ELSE UnsignedToNumber(t)

\* z.coerce: Number(value)
NumberOf(v) ==
    CASE v.t = "undefined" -> NaN
      [] v.t = "null" -> Num(0)
      [] v.t = "boolean" -> Num(v.n * 100)
      [] v.t = "number" -> Num(v.n)
      [] v.t = "string" -> StringToNumber(v.s)

\* The number schema without its min check.
NumberIssuesNoMin(v, int, lo, hi) ==
    LET x == NumberOf(v) IN
    IF x.nan THEN <<"Expected number, received nan">>
    ELSE (IF int /\ x.n % 100 # 0
          THEN <<"Expected integer, received float">> ELSE <<>>)
         \o (IF x.n > hi
             THEN <<"Number must be less than or equal to " \o ToString(hi \div 100)>>
             ELSE <<>>)

\* z.coerce.number()[.int()].min(lo).max(hi): the issues Zod raises for a
\* value (lo and hi in hundredths).
NumberIssues(v, int, lo, hi) ==
    LET x == NumberOf(v) IN
    IF x.nan THEN <<"Expected number, received nan">>
    ELSE (IF int /\ x.n % 100 # 0
          THEN <<"Expected integer, received float">> ELSE <<>>)
         \o (IF x.n < lo
             THEN <<"Number must be greater than or equal to " \o ToString(lo \div 100)>>
             ELSE <<>>)
         \o (IF x.n > hi
             THEN <<"Number must be less than or equal to " \o ToString(hi \div 100)>>
             ELSE <<>>)

\* z.string().cuid(): the model's two-character ids stand for cuids.
CuidMinLen == 2
IsCuid(id) ==
    /\ Len(id) >= CuidMinLen
    /\ \A i \in 1..Len(id) : id[i] \notin Whitespace \cup {"-"}

Prefixed(path, issues) == [i \in 1..Len(issues) |-> path \o ": " \o issues[i]]

\* .default(...) and .optional(): an undefined field raises no issue.
FieldIssues(v, int, lo, hi) ==
    IF v.t = "undefined" THEN <<>> ELSE NumberIssues(v, int, lo, hi)

\* z.array(z.string().cuid()).optional()
DocumentIdsIssues(d) ==
    IF d.t = "undefined" THEN <<>>
    ELSE IF d.t # "array" THEN <<"Expected array, received string">>
    ELSE IF \E i \in 1..Len(d.ids) : ~IsCuid(d.ids[i]) THEN <<"Invalid cuid">>
    ELSE <<>>

\* conversationSettingsSchema (and the same three fields of quickChatSchema)
\* on an object: topK integer in 1..20, threshold in 0..1, documentIds.
SettingsIssues(path, b) ==
    Prefixed(path \o "topK", FieldIssues(b.topK, TRUE, 100, 2000))
    \o Prefixed(path \o "threshold", FieldIssues(b.threshold, FALSE, 0, 100))
    \o Prefixed(path \o "documentIds", DocumentIdsIssues(b.documentIds))

\* The parsed object: coerced numbers, defaults where the field is undefined.
ParsedSettings(b, defaults) ==
    [topK |-> IF b.topK.t = "undefined" THEN defaults.topK
              ELSE NumberOf(b.topK).n \div 100,
     threshold |-> IF b.threshold.t = "undefined" THEN defaults.threshold
                   ELSE NumberOf(b.threshold).n,
     documentIds |-> b.documentIds.ids]

\* content: z.string().min(1).max(10000)
ContentIssues(content) ==
    IF Len(content) < 1 THEN <<"content: Message content is required">>
    ELSE IF Len(content) > 10000 THEN <<"content: Message too long">>
    ELSE <<>>

\* params.id: z.string().cuid("Invalid conversation ID")
IdIssues(id) == IF IsCuid(id) THEN <<>> ELSE <<"id: Invalid conversation ID">>

\* The issues of the ZodError validate catches: body is parsed before params
\* and the first failing parse throws.
ValidationIssues(kind, body, id) ==
    CASE kind = "createConversation" ->
            IF body.settings = "undefined" THEN <<>>
            ELSE IF body.settings = "null"
                 THEN <<"settings: Expected object, received null">>
            ELSE SettingsIssues("settings.", body)
      [] kind \in {"get", "delete"} -> IdIssues(id)
      [] kind = "update" ->
            IF SettingsIssues("", body) # <<>> THEN SettingsIssues("", body)
            ELSE IdIssues(id)
      [] kind \in {"send", "stream"} ->
            IF ContentIssues(body.content) # <<>> THEN ContentIssues(body.content)
            ELSE IdIssues(id)
      [] kind = "quick" -> ContentIssues(body.content) \o SettingsIssues("", body)
      [] OTHER -> <<>>

RAG_DEFAULTS == [TOP_K |-> 5, THRESHOLD |-> 70]

\* The pc at which the route's handler starts.
HandlerPc(kind) ==
    CASE kind \in {"send", "stream"} -> "getConversation"
      [] kind = "quick" -> "embed"
      [] OTHER -> kind

\* A request arrives at a route: /quick has no requireAuth.
Arrive(r, kind, session, id, body) ==
    /\ reqs[r].kind = "none"
    /\ reqs' = [reqs EXCEPT ![r] =
            [NoReq EXCEPT !.kind = kind, !.session = session, !.body = body,
                          !.convId = IF kind \in {"list", "createConversation", "quick"}
                                     THEN <<>> ELSE id,
                          !.pc = IF kind = "quick" THEN "validate" ELSE "auth"]]
    /\ UNCHANGED <<res, storeVars, docVars, nodeEnv, clientVars>>

AuthRequired ==
    [zod |-> FALSE, errors |-> <<>>, statusCode |-> 401, code |-> "UNAUTHORIZED",
     message |-> "Authentication required"]
AuthFailed ==
    [zod |-> FALSE, errors |-> <<>>, statusCode |-> 401, code |-> "UNAUTHORIZED",
     message |-> "Authentication failed"]

\* The pc after requireAuth's next(): GET /conversations has no validate.
AfterAuth(kind) == IF kind = "list" THEN "list" ELSE "validate"

\* requireAuth with `if (!session)` only: a session without user passes.
RequireAuthSessionOnly(r) ==
    /\ reqs[r].pc = "auth"
    /\ CASE reqs[r].session.state = "throws" -> Throw(r, AuthFailed)
         [] reqs[r].session.state = "null" -> Throw(r, AuthRequired)
         [] OTHER ->
                /\ reqs' = [reqs EXCEPT ![r].userId = reqs[r].session.user,
                                        ![r].pc = AfterAuth(reqs[r].kind)]
                /\ UNCHANGED res
    /\ UNCHANGED <<storeVars, docVars, nodeEnv, clientVars>>

\* requireAuth: getSession; no session or no user is ApiError 401, another
\* thrown error becomes ApiError 401; else req.userId = session.user.id, next().
RequireAuth(r) ==
    /\ reqs[r].pc = "auth"
    /\ CASE reqs[r].session.state = "throws" -> Throw(r, AuthFailed)
         [] reqs[r].session.state \in {"null", "nouser"} -> Throw(r, AuthRequired)
         [] OTHER ->
                /\ reqs' = [reqs EXCEPT ![r].userId = reqs[r].session.user,
                                        ![r].pc = AfterAuth(reqs[r].kind)]
                /\ UNCHANGED res
    /\ UNCHANGED <<storeVars, docVars, nodeEnv, clientVars>>

ZodErrorOf(issues) ==
    [zod |-> TRUE, errors |-> issues, statusCode |-> 0, code |-> "", message |-> ""]

\* validate(schema): on success req.body is the parsed body and next() runs
\* the handler, which reads its settings from it (createConversation:
\* settings ?? DEFAULT_SETTINGS, quickChat: topK ?? RAG_DEFAULTS.TOP_K ...);
\* on a ZodError it answers 400 VALIDATION_ERROR itself.
Validate(r) ==
    /\ reqs[r].pc = "validate"
    /\ LET kind == reqs[r].kind
           body == reqs[r].body
           issues == ValidationIssues(kind, body, reqs[r].convId)
       IN IF issues = <<>> THEN
             /\ reqs' = [reqs EXCEPT
                    ![r].pc = HandlerPc(kind),
                    ![r].content = body.content,
                    ![r].settings =
                        CASE kind = "createConversation" ->
                                IF body.settings = "undefined" THEN DEFAULT_SETTINGS
                                ELSE ParsedSettings(body, DEFAULT_SETTINGS)
                          [] kind = "update" -> ParsedSettings(body, DEFAULT_SETTINGS)
                          [] kind = "quick" ->
                                ParsedSettings(body, [topK |-> RAG_DEFAULTS.TOP_K,
                                                      threshold |-> RAG_DEFAULTS.THRESHOLD])
                          [] OTHER -> reqs[r].settings]
             /\ UNCHANGED res
          ELSE
             /\ reqs' = [reqs EXCEPT ![r].pc = "failed", ![r].error = ZodErrorOf(issues)]
             /\ res' = [res EXCEPT ![r] =
                    [res[r] EXCEPT !.headersSent = TRUE, !.status = 400,
                                   !.code = "VALIDATION_ERROR",
                                   !.message = JoinMessages(issues),
                                   !.state = "ended",
                                   !.sendErrorCalls = Append(@,
                                        [status |-> 400, message |-> JoinMessages(issues),
                                         code |-> "VALIDATION_ERROR"])]]
    /\ UNCHANGED <<storeVars, docVars, nodeEnv, clientVars>>

\* ------------------------------------------------------------------------
\* Two users on the conversation routes
\* ------------------------------------------------------------------------

\* The highest message serial at which a request that saves messages is
\* still accepted.
MaxMsgId == 3
OtherSettings == [topK |-> 1, threshold |-> 0, documentIds |-> <<>>]

\* Conversation c1 of user u1 with one exchange.  Slot CR serves the send
\* and stream requests and the other slot the conversation routes; requests
\* of both users arrive one after another in each slot.
InitOwner ==
    /\ conversations = {[id |-> IdOf("c", 1), userId |-> "u1", settings |-> DEFAULT_SETTINGS]}
    /\ nextConvId = 2
    /\ messages = SeedExchange
    /\ nextMsgId = 3
    /\ deletedConvs = {}
    /\ documents = SeedDocuments
    /\ chunks = SeedChunks
    /\ nextDocId = 2
    /\ nextChunkId = 2
    /\ InitPipeline
    /\ nodeEnv = "production"
    /\ InitRequests
    /\ variant = "hook"
    /\ cachedMessages = <<>>
    /\ InitClient

ConversationStep(r) ==
    \/ GetConversationsHandler(r)
    \/ CreateConversationHandler(r)
    \/ GetConversationHandler(r)
    \/ DeleteConversationHandler(r)
    \/ UpdateSettingsHandler(r)

NextOwner ==
    \/ \E r \in Reqs \ {CR}, kind \in ConversationKinds, userId \in Users,
          convId \in ConvIds :
            StartConversationRequest(r, kind, userId, convId, OtherSettings)
    \/ \E kind \in {"send", "stream"}, userId \in Users, convId \in ConvIds,
          content \in UserTexts :
            /\ nextMsgId <= MaxMsgId
            /\ StartRequest(CR, kind, userId, convId, content)
    \/ \E r \in Reqs : ConversationStep(r)
    \/ ServerStep(CR)
    \/ \E r \in Reqs : Finish(r)

SpecOwner == InitOwner /\ [][NextOwner]_vars

\* The users a step acts for: those of the requests it starts, advances or
\* finishes.
Actors ==
    UNION {{reqs[r].userId, reqs'[r].userId} : r \in {q \in Reqs : reqs'[q] # reqs[q]}}

OwnedBy(convs, u) == {cv \in convs : cv.userId = u}

\* The request has run its ownership check.
Checked(r) ==
    /\ reqs[r].kind \in {"get", "send", "stream"}
    /\ reqs[r].pc \notin {"get", "getConversation"}

\* C15: a get, send or stream request on a conversation of another user is
\* answered 404 CONVERSATION_NOT_FOUND before any API call; a response
\* carries only rows of the requesting user; no step of a request (update
\* and delete included) on a conversation of another user changes a
\* conversation or a message; and a step that acts for other users leaves a
\* user's conversation rows (settings included) and their messages as they
\* were.
C15_OwnerOnly ==
    /\ [](\A r \in Reqs :
            /\ \A cv \in reqs[r].seen : cv.userId = reqs[r].userId
            /\ (Checked(r) /\ \E cv \in conversations :
                    cv.id = reqs[r].convId /\ cv.userId # reqs[r].userId) =>
                  /\ reqs[r].pc = "failed"
                  /\ res[r].status = 404
                  /\ res[r].code = "CONVERSATION_NOT_FOUND"
                  /\ reqs[r].embedCalls = 0 /\ reqs[r].completionCalls = 0)
    /\ [][/\ \A r \in Reqs :
                (/\ reqs'[r] # reqs[r]
                 /\ \E cv \in conversations :
                        cv.id = reqs[r].convId /\ cv.userId # reqs[r].userId) =>
                    messages' = messages /\ conversations' = conversations
          /\ \A u \in Users : u \notin Actors =>
                /\ OwnedBy(conversations', u) = OwnedBy(conversations, u)
                /\ \A cv \in OwnedBy(conversations, u) :
                      LET In(m) == m.conversationId = cv.id IN
                      SelectSeq(messages', In) = SelectSeq(messages, In)]_vars

\* User u2 has asked to stream into, and to update, conversation c1 of user
\* u1: the stream was refused and the update answered 200, and c1 still has
\* its settings and its two messages.
C15_Witness ==
    /\ reqs[CR].kind = "stream" /\ reqs[CR].userId = "u2"
    /\ reqs[CR].convId = IdOf("c", 1) /\ reqs[CR].pc = "failed"
    /\ res[CR].status = 404
    /\ reqs[2].kind = "update" /\ reqs[2].userId = "u2"
    /\ reqs[2].convId = IdOf("c", 1) /\ reqs[2].pc = "done"
    /\ res[2].status = 200
    /\ [id |-> IdOf("c", 1), userId |-> "u1", settings |-> DEFAULT_SETTINGS] \in conversations
    /\ Len(MessagesOf(IdOf("c", 1))) = 2

\* ------------------------------------------------------------------------
\* One request through the chat routes
\* ------------------------------------------------------------------------

Sessions == {SessionNull, SessionNoUser, SessionThrows} \cup {SessionOf(u) : u \in Users}
RouteKinds == ConversationKinds \cup Kinds
RouteIds == {IdOf("c", 1), <<"-">>}
RouteBodies ==
    {[NoBody EXCEPT !.content = <<"q">>],
     [NoBody EXCEPT !.content = <<"q">>, !.settings = "object", !.topK = RawNum(100),
                    !.documentIds = RawIds(<<IdOf("d", 1)>>)],
     [NoBody EXCEPT !.settings = "object", !.documentIds = RawIds(<<<<"-">>>>)]}

\* Conversation c1 of user u1 with one exchange, and one request arriving at
\* any route with any session.
InitRoutes == InitOwner

NextRoutes ==
    \/ \E kind \in RouteKinds, session \in Sessions, id \in RouteIds,
          body \in RouteBodies :
            Arrive(CR, kind, session, id, body)
    \/ RequireAuth(CR)
    \/ Validate(CR)
    \/ ConversationStep(CR)
    \/ ServerStep(CR)

SpecRoutes == InitRoutes /\ [][NextRoutes]_vars

\* The routes under /conversations.
Guarded(q) == q.kind \in ConversationKinds \cup {"send", "stream"}

\* C16: a request to a route under /conversations without a valid session
\* (none, none with a user, or a failing lookup) never gets past requireAuth:
\* it ends with 401 UNAUTHORIZED, carries no userId, and none of its steps
\* reads or changes a conversation or a message; with a valid session the
\* userId is the session user's id from requireAuth on.
C16_AuthRequired ==
    /\ [](\A r \in Reqs : Guarded(reqs[r]) =>
            /\ reqs[r].session.state # "valid" =>
                  /\ reqs[r].pc \in {"auth", "failed"}
                  /\ reqs[r].userId = ""
                  /\ reqs[r].seen = {}
                  /\ reqs[r].pc = "failed" =>
                        /\ res[r].status = 401
                        /\ res[r].code = "UNAUTHORIZED"
            /\ (reqs[r].session.state = "valid" /\ reqs[r].pc # "auth") =>
                  reqs[r].userId = reqs[r].session.user)
    /\ [][\A r \in Reqs :
            (/\ reqs'[r] # reqs[r]
             /\ Guarded(reqs'[r])
             /\ reqs'[r].session.state # "valid") => UNCHANGED storeVars]_vars

\* A delete of conversation c1 with a session that has no user was refused
\* with 401 and c1 is still there.
C16_Witness ==
    /\ reqs[CR].kind = "delete"
    /\ reqs[CR].session = SessionNoUser
    /\ reqs[CR].convId = IdOf("c", 1)
    /\ reqs[CR].pc = "failed"
    /\ res[CR].status = 401
    /\ ConversationExists(IdOf("c", 1))

\* C18: no step of a POST /api/chat/quick request, whether the request ends
\* in success or in failure, creates, changes or deletes a conversation or a
\* message.
C18_QuickSavesNothing ==
    [][\A r \in Reqs :
        (reqs'[r] # reqs[r] /\ reqs'[r].kind = "quick") =>
            /\ conversations' = conversations
            /\ messages' = messages
            /\ reqs'[r].pc \in {"validate", "embed", "query", "complete", "done", "failed"}]_vars

\* A quick chat was answered with 200 after one completion call, and the
\* stored conversation and its two messages are as before.
C18_Witness ==
    /\ reqs[CR].kind = "quick"
    /\ reqs[CR].pc = "done"
    /\ res[CR].status = 200
    /\ reqs[CR].completionCalls = 1
    /\ ConversationExists(IdOf("c", 1))
    /\ messages = SeedExchange

\* ------------------------------------------------------------------------
\* Sequences of create-conversation and update-settings requests
\* ------------------------------------------------------------------------

RawTopKs ==
    {RawUndefined, RawNull, RawNum(0), RawNum(100), RawNum(2000), RawNum(2100),
     RawNum(250), RawStr(<<"a">>)}
RawThresholds ==
    {RawUndefined, RawNull, RawNum(100), RawNum(101), RawNum(0 - 1),
     RawStr(<<"0", ".", "5">>)}
RawDocumentIds == {RawNoIds, RawNotArray}
SettingsBodies ==
    {[NoBody EXCEPT !.settings = "object", !.topK = k, !.threshold = t,
                    !.documentIds = d] :
        k \in RawTopKs, t \in RawThresholds, d \in RawDocumentIds}
    \cup {NoBody, [NoBody EXCEPT !.settings = "null"]}

InitSettings == InitOwner

NextSettings ==
    \/ \E u \in Users, body \in SettingsBodies :
            Arrive(CR, "update", SessionOf(u), IdOf("c", 1), body)
    \/ \E body \in SettingsBodies :
            Arrive(CR, "createConversation", SessionOf("u2"), <<>>, body)
    \/ RequireAuth(CR)
    \/ Validate(CR)
    \/ CreateConversationHandler(CR)
    \/ UpdateSettingsHandler(CR)
    \/ Finish(CR)

SpecSettings == InitSettings /\ [][NextSettings]_vars

\* The request carries a settings object.
HasSettings(q) ==
    \/ q.kind = "update"
    \/ q.kind = "createConversation" /\ q.body.settings = "object"

\* A numeric topK that is no integer in 1..20 or a numeric threshold outside
\* 0..1 (both in hundredths).
OutOfBounds(b) ==
    \/ /\ b.topK.t = "number"
       /\ b.topK.n % 100 # 0 \/ b.topK.n < 100 \/ b.topK.n > 2000
    \/ /\ b.threshold.t = "number"
       /\ b.threshold.n < 0 \/ b.threshold.n > 100

\* C17: the stored settings of every conversation have an integer topK in
\* 1..20 and a threshold in 0..1 (0..100 hundredths); a create or update
\* request whose settings are outside these bounds ends with 400
\* VALIDATION_ERROR and none of its steps changes a conversation.
C17_SettingsInBounds ==
    /\ [](/\ \A cv \in conversations :
                /\ cv.settings.topK \in 1..20
                /\ cv.settings.threshold \in 0..100
          /\ \A r \in Reqs :
                (/\ HasSettings(reqs[r])
                 /\ OutOfBounds(reqs[r].body)
                 /\ reqs[r].pc \notin {"auth", "validate"}) =>
                    /\ reqs[r].pc = "failed"
                    /\ res[r].status = 400
                    /\ res[r].code = "VALIDATION_ERROR")
    /\ [][\A r \in Reqs :
            (/\ reqs'[r] # reqs[r]
             /\ HasSettings(reqs'[r])
             /\ OutOfBounds(reqs'[r].body)) => conversations' = conversations]_vars

\* After an update that stored topK 20 and threshold 1, an update with topK
\* 21 was refused with 400 and the stored settings are as they were.
C17_Witness ==
    /\ reqs[CR].kind = "update"
    /\ reqs[CR].body.topK = RawNum(2100)
    /\ reqs[CR].pc = "failed"
    /\ res[CR].status = 400
    /\ \E cv \in conversations :
            cv.id = IdOf("c", 1) /\ cv.settings.topK = 20 /\ cv.settings.threshold = 100

\* ------------------------------------------------------------------------
\* chunkText on its own
\* ------------------------------------------------------------------------

\* The longest text chunked.
MaxTextLen == 5
TextChars == {"a", "b", " ", NL}
ChunkTexts == UNION {[1..n -> TextChars] : n \in 0..MaxTextLen}
MaxChunkSizes == {1, 2, 3, MAX_CHUNK_SIZE}

InitChunk == InitDocs

NextChunk ==
    \E u \in Uploads, text \in ChunkTexts, maxChunkSize \in MaxChunkSizes :
        ChunkTextCall(u, text, maxChunkSize)

SpecChunk == InitChunk /\ [][NextChunk]_vars

\* C19: every chunk chunkText returns has at most maxChunkSize characters.
C19_ChunksWithinMax ==
    \A u \in Uploads : uploads[u].pc = "returned" =>
        \A i \in 1..Len(uploads[u].texts) :
            Len(uploads[u].texts[i]) <= uploads[u].maxChunkSize

\* The trimmed non-blank paragraphs of a text, in order.
NonBlankParagraphs(text) ==
    LET ps == SplitParagraphs(text, 1)
        trimmed == [i \in 1..Len(ps) |-> Trim(ps[i])]
        NonBlank(p) == p # <<>>
    IN SelectSeq(trimmed, NonBlank)

RECURSIVE Concat(_)
Concat(seqs) == IF seqs = <<>> THEN <<>> ELSE Head(seqs) \o Concat(Tail(seqs))

\* C20: for a text with a non-blank paragraph, the chunks joined by blank
\* lines are the trimmed non-blank paragraphs joined by blank lines, and the
\* chunks, each split again into paragraphs, give back exactly the sequence
\* of those paragraphs: none lost, none twice, none split across chunks.
C20_ChunksKeepParagraphs ==
    \A u \in Uploads :
        (uploads[u].pc = "returned" /\ NonBlankParagraphs(uploads[u].content) # <<>>) =>
            LET ps == NonBlankParagraphs(uploads[u].content)
                cs == uploads[u].texts
            IN /\ Join(cs, <<NL, NL>>) = Join(ps, <<NL, NL>>)
               /\ Concat([i \in 1..Len(cs) |-> SplitParagraphs(cs[i], 1)]) = ps
               /\ \A i \in 1..Len(cs) : cs[i] # <<>>

\* The text "a", blank line, "b" chunked with maxChunkSize 1: two chunks,
\* one paragraph each.
C20_Witness ==
    \E u \in Uploads :
        /\ uploads[u].pc = "returned"
        /\ uploads[u].content = <<"a", NL, NL, "b">>
        /\ uploads[u].maxChunkSize = 1
        /\ uploads[u].texts = <<(<<"a">>), (<<"b">>)>>

\* C21: every stored DocumentChunk (each is a chunk chunkText returned for an
\* uploaded file) has non-empty content without leading or trailing
\* whitespace.
C21_ChunksNonEmptyTrimmed ==
    \A k \in chunks : k.content # <<>> /\ Trim(k.content) = k.content

\* The chunks a search with this documentIds option may return: those with
\* an embedding, of the listed documents when the list is not empty.
Eligible(documentIds) ==
    {k \in chunks :
        /\ k.embedding # "NULL"
        /\ documentIds # <<>> =>
              k.documentId \in {documentIds[i] : i \in 1..Len(documentIds)}}

\* The chunk a search result stands for.
ChunkOf(s) == CHOOSE k \in chunks : JStr(k.id) = Get(s, K_id)

\* C22: the results of a search are distinct eligible chunks of similarity at
\* least the threshold, in non-increasing order of similarity, at most topK
\* of them; they are as many as topK and the number of eligible chunks at or
\* above the threshold allow, and no eligible chunk left out is more similar
\* to the query than one returned.
C22_SearchExact ==
    \A r \in Reqs : Searched(r) =>
        LET st == reqs[r].settings
            q == reqs[r].queryEmbedding
            kids == reqs[r].sources.kids
            Sim(k) == Similarity(k.embedding, q)
            above == {k \in Eligible(st.documentIds) : Sim(k) >= st.threshold}
        IN /\ Len(kids) <= st.topK
           /\ Len(kids) = Min(st.topK, Cardinality(above))
           /\ \A i \in 1..Len(kids) :
                /\ \E k \in chunks : JStr(k.id) = Get(kids[i], K_id)
                /\ ChunkOf(kids[i]) \in above
                /\ Get(kids[i], K_content) = JStr(ChunkOf(kids[i]).content)
                /\ Get(kids[i], K_documentId) = JStr(ChunkOf(kids[i]).documentId)
           /\ \A i, j \in 1..Len(kids) : i < j =>
                /\ ChunkOf(kids[i]) # ChunkOf(kids[j])
                /\ Sim(ChunkOf(kids[i])) >= Sim(ChunkOf(kids[j]))
           /\ \A k \in above :
                (\A i \in 1..Len(kids) : ChunkOf(kids[i]) # k) =>
                    \A i \in 1..Len(kids) : Sim(ChunkOf(kids[i])) >= Sim(k)

\* A search limited to document d2 with topK 1 and threshold 0.5 has
\* returned chunk k3 alone (k4 of d2 has no embedding, k1 of d1 is as
\* similar but filtered out).
C22_Witness ==
    /\ Searched(CR)
    /\ reqs[CR].settings = [topK |-> 1, threshold |-> 50, documentIds |-> <<IdOf("d", 2)>>]
    /\ reqs[CR].queryEmbedding = "e1"
    /\ Len(reqs[CR].sources.kids) = 1
    /\ Get(reqs[CR].sources.kids[1], K_id) = JStr(IdOf("k", 3))

\* C23: in every conversation the messages, in creation order, alternate
\* user, assistant, starting with a user message, and every assistant
\* message directly follows the user message of the same request.
C23_MessagesAlternate ==
    \A c \in ConvIds :
        LET ms == MessagesOf(c) IN
        \A i \in 1..Len(ms) :
            /\ ms[i].role = (IF i % 2 = 1 THEN "user" ELSE "assistant")
            /\ ms[i].role = "assistant" => ms[i - 1].by = ms[i].by

\* C24: when the embedding call or the completion call of a send or stream
\* request has failed (before or in the middle of the stream), the error has
\* been passed to the error handler once, no assistant message of the
\* request is stored, and the user message the request saved is still stored
\* as long as the conversation has not been deleted.
C24_FailureKeepsUserMessage ==
    \A r \in Reqs :
        (reqs[r].kind \in {"send", "stream"} /\ reqs[r].error = OpenAIError) =>
            /\ reqs[r].pc = "failed"
            /\ res[r].sendErrorCalls = <<errorHandler(OpenAIError, nodeEnv)>>
            /\ reqs[r].asstMsgId = <<>>
            /\ \A i \in 1..Len(messages) :
                    messages[i].by = r => messages[i].role = "user"
            /\ reqs[r].convId \notin deletedConvs =>
                    \E i \in 1..Len(messages) :
                        /\ messages[i].by = r
                        /\ messages[i].conversationId = reqs[r].convId
                        /\ messages[i].role = "user"
                        /\ messages[i].content = reqs[r].content

\* A stream broke after content had been written to the client: the user
\* message of the request is stored and the relayed content is not.
C24_Witness ==
    \E r \in Reqs :
        /\ reqs[r].kind = "stream"
        /\ reqs[r].error = OpenAIError
        /\ reqs[r].fullContent # <<>>
        /\ Len(res[r].written) >= 2
        /\ reqs[r].convId \notin deletedConvs
        /\ \E i \in 1..Len(messages) : messages[i].by = r /\ messages[i].role = "user"
        /\ \A i \in 1..Len(messages) : messages[i].role # "assistant"

\* C25: the upload answers 201 with status "processing" in the step that
\* starts the embedding job, after createChunks has returned (the document and
\* its chunks are stored unless the document was deleted since) and before
\* the job has made any call; the answer never changes afterwards; and the
\* step in which the job fails changes no upload, document or chunk.
C25_UploadDoesNotWait ==
    [][\A u \in Uploads :
        /\ (uploads'[u].status = 201 /\ uploads[u].status # 201) =>
              /\ uploads'[u].bodyStatus = "processing"
              /\ jobs[u].pc = "none" /\ jobs'[u].pc = "find"
              /\ uploads[u].pc = "respond"
              /\ uploads[u].docId \notin deletedDocs =>
                    /\ DocumentExists(uploads[u].docId)
                    /\ Cardinality({k \in chunks : k.documentId = uploads[u].docId})
                          = uploads'[u].chunkCount
              /\ \A k \in chunks : k.documentId = uploads[u].docId => k.embedding = "NULL"
        /\ uploads[u].status = 201 => uploads'[u] = uploads[u]
        /\ (jobs'[u].pc = "failed" /\ jobs[u].pc # "failed") =>
              /\ uploads' = uploads
              /\ documents' = documents
              /\ chunks' = chunks]_vars

\* The job of an answered upload has failed: the answer is still 201
\* "processing" and the document has its two chunks, without embeddings.
C25_Witness ==
    \E u \in Uploads :
        /\ jobs[u].pc = "failed"
        /\ uploads[u].status = 201
        /\ uploads[u].bodyStatus = "processing"
        /\ uploads[u].chunkCount = 2
        /\ DocumentExists(uploads[u].docId)
        /\ Cardinality({k \in chunks : k.documentId = uploads[u].docId
                                       /\ k.embedding = "NULL"}) = 2

\* The chunks of the document of upload u, each paired with the embedding the
\* batch returned for its own content: found[i] is input i of the API call
\* and embeddings[i] is item i of its answer.
Embedded(u) ==
    LET j == jobs[u]
        own == {k \in chunks : k.documentId = uploads[u].docId}
    IN /\ j.pc = "done"
       /\ Len(j.embeddings) = Len(j.found)
       /\ {k.id : k \in own} = {j.found[i].id : i \in 1..Len(j.found)}
       /\ \A i \in 1..Len(j.found) :
             \E k \in own : /\ k.id = j.found[i].id
                            /\ k.content = j.found[i].content
                            /\ k.embedding = j.embeddings[i]
       /\ own \subseteq Candidates(<<>>)
       /\ own \subseteq Candidates(<<uploads[u].docId>>)

\* C26: once an upload has been answered 201, eventually its document is
\* deleted, or the embedding call fails, or every chunk of the document has
\* the embedding returned for its own content and is a candidate of the search.
C26_EventuallyEmbedded ==
    \A u \in Uploads :
        (uploads[u].status = 201) ~>
            \/ uploads[u].docId \in deletedDocs
            \/ jobs[u].pc = "failed"
            \/ Embedded(u)

\* A two-chunk document whose chunks received two different embeddings.
C26_Witness ==
    \E u \in Uploads :
        /\ uploads[u].status = 201
        /\ uploads[u].chunkCount = 2
        /\ uploads[u].docId \notin deletedDocs
        /\ Embedded(u)
        /\ jobs[u].embeddings[1] # jobs[u].embeddings[2]
====
